---- MODULE Spec2Model ----
(***************************************************************************)
(* DeepTrade-AI: the workflow orchestration core.                          *)
(*                                                                         *)
(* The model follows main.py: build_graph() wires the stage nodes and the  *)
(* two routing functions of ConditionalLogic into a graph,                 *)
(* run_full_pipeline() builds the initial AgentState and runs the graph    *)
(* inside one try/except, and extract_signal() classifies what it returns. *)
(*                                                                         *)
(* Python strings are sequences of one-character strings, so that          *)
(* concatenation, startswith, lower and the substring test are computed    *)
(* the way the code computes them.  Graph node names (the keys of          *)
(* workflow.add_node) are TLA+ strings.                                    *)
(***************************************************************************)
EXTENDS Integers, Sequences, FiniteSets, TLC

VARIABLES
    max_debate_rounds,        \* ConditionalLogic.max_debate_rounds
    max_risk_discuss_rounds,  \* ConditionalLogic.max_risk_discuss_rounds
    state,                    \* the AgentState threaded through the graph
    node,                     \* the graph's current node (next to execute)
    executed,                 \* the nodes whose update has been merged, in order
    pc,                       \* where main.py / run_full_pipeline stands
    result,                   \* what run_full_pipeline returned
    signal,                   \* what extract_signal returned
    ticker,                   \* run_full_pipeline's ticker argument
    trade_date,               \* run_full_pipeline's trade_date argument
    varied,                   \* reasoner calls that answered something else than the mock text
    tracers                   \* the global tracer objects of src/tracing

vars ==
    <<max_debate_rounds, max_risk_discuss_rounds, state, node, executed,
      pc, result, signal, ticker, trade_date, varied, tracers>>

----------------------------------------------------------------------------
(* Bounds of the model. *)

\* largest round limit a ConditionalLogic is constructed with
MaxRounds == 2

\* reasoner calls per run that may return a text other than MockLLM's
MaxVaried == 1

\* longest free-form text given to extract_signal
MaxSigLen == 4

----------------------------------------------------------------------------
(* String literals of the source. *)

BullResearcherName ==
    <<"B", "u", "l", "l", " ", "R", "e", "s", "e", "a", "r", "c", "h", "e", "r">>

BearResearcherName ==
    <<"B", "e", "a", "r", " ", "R", "e", "s", "e", "a", "r", "c", "h", "e", "r">>

BullAnalystName ==
    <<"B", "u", "l", "l", " ", "A", "n", "a", "l", "y", "s", "t">>

RiskyAnalystName ==
    <<"R", "i", "s", "k", "y", " ", "A", "n", "a", "l", "y", "s", "t">>

SafeAnalystName ==
    <<"S", "a", "f", "e", " ", "A", "n", "a", "l", "y", "s", "t">>

NeutralAnalystName ==
    <<"N", "e", "u", "t", "r", "a", "l", " ", "A", "n", "a", "l", "y", "s", "t">>

TraderName ==
    <<"T", "r", "a", "d", "e", "r">>

UserName ==
    <<"U", "s", "e", "r">>

BullTag ==
    <<"B", "u", "l", "l">>

MockResponse ==
    <<"M", "o", "c", "k", " ", "r", "e", "s", "p", "o", "n", "s", "e">>

HoldAnalysisFailed ==
    <<"H", "O", "L", "D", " ", "-", " ", "A", "n", "a", "l", "y", "s", "i", "s",
      " ", "f", "a", "i", "l", "e", "d">>

BuyWord ==
    <<"b", "u", "y">>

SellWord ==
    <<"s", "e", "l", "l">>

DefaultTicker ==
    <<"A", "A", "P", "L">>

DefaultTradeDate ==
    <<"2", "0", "2", "5", "-", "0", "9", "-", "1", "0">>

AnalyzePrefix ==
    <<"A", "n", "a", "l", "y", "z", "e", " ">>

AnalyzeInfix ==
    <<" ", "s", "t", "o", "c", "k", " ", "f", "o", "r", " ", "t", "r", "a", "d",
      "i", "n", "g", " ", "o", "n", " ">>

Newline ==
    <<"\n">>

ColonSpace ==
    <<":", " ">>

EmptyStr ==
    << >>

----------------------------------------------------------------------------
(* Python string operations. *)

UpperLetters ==
    <<"A", "B", "C", "D", "E", "F", "G", "H", "I", "J", "K", "L", "M",
      "N", "O", "P", "Q", "R", "S", "T", "U", "V", "W", "X", "Y", "Z">>

LowerLetters ==
    <<"a", "b", "c", "d", "e", "f", "g", "h", "i", "j", "k", "l", "m",
      "n", "o", "p", "q", "r", "s", "t", "u", "v", "w", "x", "y", "z">>

\* str.lower() on one character
LowerChar(c) ==
    IF \E i \in 1..Len(UpperLetters) : UpperLetters[i] = c
    THEN LowerLetters[CHOOSE i \in 1..Len(UpperLetters) : UpperLetters[i] = c]
    ELSE c

\* str.lower()
Lower(s) ==
    [i \in 1..Len(s) |-> LowerChar(s[i])]

\* s.startswith(p)
StartsWith(s, p) ==
    /\ Len(s) >= Len(p)
    /\ SubSeq(s, 1, Len(p)) = p

\* sub in s
Contains(s, sub) ==
    \E i \in 1..(Len(s) - Len(sub) + 1) : SubSeq(s, i, i + Len(sub) - 1) = sub

----------------------------------------------------------------------------
(* Values. *)

\* Python's None
None ==
    [py_none |-> TRUE]

IsNone(x) ==
    DOMAIN x = {"py_none"}

\* None where the code expects a str (no Python str is this sequence)
NoneText ==
    <<"None">>

\* an empty dict
EmptyDict ==
    << >>

HumanMessage(content) ==
    [type |-> "human", content |-> content]

\* a reasoner's answer: its text and the tool calls it asks for
AIMessage(content, tool_calls) ==
    [type |-> "ai", content |-> content, tool_calls |-> tool_calls]

----------------------------------------------------------------------------
(* config/config.py and ConditionalLogic's defaults. *)

\* config["max_debate_rounds"]
ConfigMaxDebateRounds == 2

\* config["max_risk_discuss_rounds"]
ConfigMaxRiskDiscussRounds == 1

\* ConditionalLogic.__init__(self, max_debate_rounds=1, ...)
DefaultMaxDebateRounds == 1

\* ConditionalLogic.__init__(self, ..., max_risk_discuss_rounds=1)
DefaultMaxRiskDiscussRounds == 1

----------------------------------------------------------------------------
(* The reasoner: llm.invoke(prompt) returns a text or raises. *)

RespBuy ==
    <<"B", "U", "Y">>

RespSell ==
    <<"S", "e", "l", "l">>

\* texts a hosted model may return instead of MockLLM's "Mock response"
OtherResponses ==
    {EmptyStr, BullTag, RespBuy, RespSell}

Responses ==
    {MockResponse} \cup OtherResponses

\* what the next reasoner call may return, v varied answers having been given
LlmResponses(v) ==
    {MockResponse} \cup (IF v < MaxVaried THEN OtherResponses ELSE {})

\* MockLLM.invoke's MockResponse: content 'Mock response', tool_calls []
MockResult ==
    AIMessage(MockResponse, << >>)

\* an answer of a hosted model that asks for a data-retrieval call
ToolCallResult ==
    AIMessage(EmptyStr, <<"get_yfinance_data">>)

\* the message the next reasoner call may return
LlmResults(v) ==
    {AIMessage(c, << >>) : c \in LlmResponses(v)}
        \cup (IF v < MaxVaried THEN {ToolCallResult} ELSE {})

\* str(e) of the exception a reasoner call raises
ErrorTexts ==
    { <<"t", "i", "m", "e", "o", "u", "t">> }

Tickers ==
    {DefaultTicker}

TradeDates ==
    {DefaultTradeDate}

----------------------------------------------------------------------------
(* run_full_pipeline: the initial state and the fallback record. *)

InitialInvestDebateState ==
    [bull_history |-> EmptyStr, bear_history |-> EmptyStr, history |-> EmptyStr,
     current_response |-> EmptyStr, judge_decision |-> EmptyStr, count |-> 0]

\* the initial risk debate state with the Risky Analyst already named as last speaker
InitialRiskDebateState_speaker ==
    [risky_history |-> EmptyStr, safe_history |-> EmptyStr,
     neutral_history |-> EmptyStr, history |-> EmptyStr,
     latest_speaker |-> RiskyAnalystName, current_risky_response |-> EmptyStr,
     current_safe_response |-> EmptyStr, current_neutral_response |-> EmptyStr,
     judge_decision |-> EmptyStr, count |-> 0]

InitialRiskDebateState ==
    [risky_history |-> EmptyStr, safe_history |-> EmptyStr,
     neutral_history |-> EmptyStr, history |-> EmptyStr,
     latest_speaker |-> EmptyStr, current_risky_response |-> EmptyStr,
     current_safe_response |-> EmptyStr, current_neutral_response |-> EmptyStr,
     judge_decision |-> EmptyStr, count |-> 0]

InitialState(t, d) ==
    [messages |-> <<HumanMessage(AnalyzePrefix \o t \o AnalyzeInfix \o d)>>,
     company_of_interest |-> t,
     trade_date |-> d,
     sender |-> UserName,
     market_report |-> EmptyStr,
     sentiment_report |-> EmptyStr,
     news_report |-> EmptyStr,
     fundamentals_report |-> EmptyStr,
     investment_debate_state |-> InitialInvestDebateState,
     investment_plan |-> EmptyStr,
     trader_investment_plan |-> EmptyStr,
     risk_debate_state |-> InitialRiskDebateState,
     final_trade_decision |-> EmptyStr]


\* the except branch returning the fallback without the error description
FallbackResult_no_error(e, t, d) ==
    [final_trade_decision |-> HoldAnalysisFailed,
     company_of_interest |-> t, trade_date |-> d]

\* the except branch returning a decision to sell when the analysis failed
FallbackResult_sell(e, t, d) ==
    [final_trade_decision |-> RespSell \o HoldAnalysisFailed, error |-> e,
     company_of_interest |-> t, trade_date |-> d]

\* the dict returned by the except branch
FallbackResult(e, t, d) ==
    [final_trade_decision |-> HoldAnalysisFailed, error |-> e,
     company_of_interest |-> t, trade_date |-> d]

----------------------------------------------------------------------------
(* The stage nodes: each returns a partial update. *)

\* llm_result is the code's local result = chain.invoke(...)
analyst_node(s, output_field, llm_result) ==
    LET report == llm_result.content
    IN  [messages |-> <<llm_result>>] @@ (output_field :> report)


\* researcher_node assigning the new argument to history instead of appending it
researcher_node_overwrite(s, agent_name, content) ==
    LET argument == agent_name \o ColonSpace \o content
        ds == s.investment_debate_state
        d1 == [ds EXCEPT !.history = Newline \o argument]
        d2 == IF agent_name = BullAnalystName
              THEN [d1 EXCEPT !.bull_history = @ \o Newline \o argument]
              ELSE [d1 EXCEPT !.bear_history = @ \o Newline \o argument]
        d3 == [d2 EXCEPT !.current_response = argument]
        d4 == [d3 EXCEPT !.count = @ + 1]
    IN  [investment_debate_state |-> d4]

\* researcher_node storing the reasoner's text, without the speaker's tag, as current_response
researcher_node_untagged(s, agent_name, content) ==
    LET argument == agent_name \o ColonSpace \o content
        ds == s.investment_debate_state
        d1 == [ds EXCEPT !.history = @ \o Newline \o argument]
        d2 == IF agent_name = BullAnalystName
              THEN [d1 EXCEPT !.bull_history = @ \o Newline \o argument]
              ELSE [d1 EXCEPT !.bear_history = @ \o Newline \o argument]
        d3 == [d2 EXCEPT !.current_response = content]
        d4 == [d3 EXCEPT !.count = @ + 1]
    IN  [investment_debate_state |-> d4]

\* researcher_node leaving current_response as it was
researcher_node_stale_response(s, agent_name, content) ==
    LET argument == agent_name \o ColonSpace \o content
        ds == s.investment_debate_state
        d1 == [ds EXCEPT !.history = @ \o Newline \o argument]
        d2 == IF agent_name = BullAnalystName
              THEN [d1 EXCEPT !.bull_history = @ \o Newline \o argument]
              ELSE [d1 EXCEPT !.bear_history = @ \o Newline \o argument]
        d4 == [d2 EXCEPT !.count = @ + 1]
    IN  [investment_debate_state |-> d4]

researcher_node(s, agent_name, content) ==
    LET argument == agent_name \o ColonSpace \o content
        ds == s.investment_debate_state
        d1 == [ds EXCEPT !.history = @ \o Newline \o argument]
        d2 == IF agent_name = BullAnalystName
              THEN [d1 EXCEPT !.bull_history = @ \o Newline \o argument]
              ELSE [d1 EXCEPT !.bear_history = @ \o Newline \o argument]
        d3 == [d2 EXCEPT !.current_response = argument]
        d4 == [d3 EXCEPT !.count = @ + 1]
    IN  [investment_debate_state |-> d4]

\* research_manager_node also recording its plan as the debate's judge_decision
research_manager_node_sets_judge(s, content) ==
    [investment_plan |-> content,
     investment_debate_state |->
        [s.investment_debate_state EXCEPT !.judge_decision = content]]

\* researcher_node without .copy(): debate_state is the passed state's own dict
researcher_node_arg_aliased(s, agent_name, content) ==
    [s EXCEPT !.investment_debate_state =
        researcher_node(s, agent_name, content).investment_debate_state]

\* the state dict researcher_node was called with, after the call: debate_state
\* is state['investment_debate_state'].copy(), so every assignment of the node
\* goes to the copy
researcher_node_arg(s, agent_name, content) ==
    s

research_manager_node(s, content) ==
    [investment_plan |-> content]

\* trader_node also storing its proposal as the final decision
trader_node_writes_final(s, name, content) ==
    [trader_investment_plan |-> content, sender |-> name,
     final_trade_decision |-> content]

trader_node(s, name, content) ==
    [trader_investment_plan |-> content, sender |-> name]

\* risk_debator_node without count += 1
risk_debator_node_no_count(s, agent_name, content) ==
    LET risk_state == s.risk_debate_state
        r1 == [risk_state EXCEPT
                 !.history = @ \o Newline \o agent_name \o ColonSpace \o content]
        r2 == [r1 EXCEPT !.latest_speaker = agent_name]
        r3 == IF agent_name = RiskyAnalystName
              THEN [r2 EXCEPT !.current_risky_response = content]
              ELSE IF agent_name = SafeAnalystName
                   THEN [r2 EXCEPT !.current_safe_response = content]
                   ELSE [r2 EXCEPT !.current_neutral_response = content]
    IN  [risk_debate_state |-> r3]

\* risk_debator_node emptying the other two parties' slots on every turn
risk_debator_node_clears_others(s, agent_name, content) ==
    LET risk_state == s.risk_debate_state
        r1 == [risk_state EXCEPT
                 !.history = @ \o Newline \o agent_name \o ColonSpace \o content]
        r2 == [r1 EXCEPT !.latest_speaker = agent_name]
        r3 == [r2 EXCEPT
                 !.current_risky_response =
                     IF agent_name = RiskyAnalystName THEN content ELSE EmptyStr,
                 !.current_safe_response =
                     IF agent_name = SafeAnalystName THEN content ELSE EmptyStr,
                 !.current_neutral_response =
                     IF agent_name = NeutralAnalystName THEN content ELSE EmptyStr]
        r4 == [r3 EXCEPT !.count = @ + 1]
    IN  [risk_debate_state |-> r4]

\* risk_debator_node without latest_speaker = agent_name
risk_debator_node_no_speaker(s, agent_name, content) ==
    LET risk_state == s.risk_debate_state
        r1 == [risk_state EXCEPT
                 !.history = @ \o Newline \o agent_name \o ColonSpace \o content]
        r3 == IF agent_name = RiskyAnalystName
              THEN [r1 EXCEPT !.current_risky_response = content]
              ELSE IF agent_name = SafeAnalystName
                   THEN [r1 EXCEPT !.current_safe_response = content]
                   ELSE [r1 EXCEPT !.current_neutral_response = content]
        r4 == [r3 EXCEPT !.count = @ + 1]
    IN  [risk_debate_state |-> r4]

risk_debator_node(s, agent_name, content) ==
    LET risk_state == s.risk_debate_state
        r1 == [risk_state EXCEPT
                 !.history = @ \o Newline \o agent_name \o ColonSpace \o content]
        r2 == [r1 EXCEPT !.latest_speaker = agent_name]
        r3 == IF agent_name = RiskyAnalystName
              THEN [r2 EXCEPT !.current_risky_response = content]
              ELSE IF agent_name = SafeAnalystName
                   THEN [r2 EXCEPT !.current_safe_response = content]
                   ELSE [r2 EXCEPT !.current_neutral_response = content]
        r4 == [r3 EXCEPT !.count = @ + 1]
    IN  [risk_debate_state |-> r4]

\* the state dict risk_debator_node was called with, after the call:
\* new_risk_state is risk_state.copy()
risk_debator_node_arg(s, agent_name, content) ==
    s

risk_manager_node(s, content) ==
    [final_trade_decision |-> content]

----------------------------------------------------------------------------
(* ConditionalLogic: the two routing functions. *)


\* should_continue_debate with the bound tested by > instead of >=
should_continue_debate_gt(s, max_rounds) ==
    IF s.investment_debate_state.count > 2 * max_rounds
    THEN "Research Manager"
    ELSE IF StartsWith(s.investment_debate_state.current_response, BullTag)
         THEN "Bear Researcher"
         ELSE "Bull Researcher"

\* should_continue_debate testing "Bull" in current_response instead of startswith
should_continue_debate_in(s, max_rounds) ==
    IF s.investment_debate_state.count >= 2 * max_rounds
    THEN "Research Manager"
    ELSE IF Contains(s.investment_debate_state.current_response, BullTag)
         THEN "Bear Researcher"
         ELSE "Bull Researcher"

\* langgraph's tools_condition: "tools" if the last message asks for tool calls
tools_condition(s) ==
    LET ai_message == s.messages[Len(s.messages)]
    IN  IF "tool_calls" \in DOMAIN ai_message /\ Len(ai_message.tool_calls) > 0
        THEN "tools"
        ELSE "__end__"

\* defined by ConditionalLogic, used by no edge of build_graph
should_continue_analyst(s) ==
    IF tools_condition(s) = "tools" THEN "tools" ELSE "continue"

\* should_continue_debate leaving the debate for the other debate's exit node
should_continue_debate_to_judge(s, max_rounds) ==
    IF s.investment_debate_state.count >= 2 * max_rounds
    THEN "Risk Judge"
    ELSE IF StartsWith(s.investment_debate_state.current_response, BullTag)
         THEN "Bear Researcher"
         ELSE "Bull Researcher"

\* should_continue_debate closing the debate once the tracer holds an error step
should_continue_debate_traced(s, max_rounds) ==
    IF \/ s.investment_debate_state.count >= 2 * max_rounds
       \/ \E i \in DOMAIN tracers.heap[tracers.global_tracer].traces :
             tracers.heap[tracers.global_tracer].traces[i].level = "error"
    THEN "Research Manager"
    ELSE IF StartsWith(s.investment_debate_state.current_response, BullTag)
         THEN "Bear Researcher"
         ELSE "Bull Researcher"

should_continue_debate(s, max_rounds) ==
    IF s.investment_debate_state.count >= 2 * max_rounds
    THEN "Research Manager"
    ELSE IF StartsWith(s.investment_debate_state.current_response, BullTag)
         THEN "Bear Researcher"
         ELSE "Bull Researcher"


\* should_continue_risk_analysis with the two-party factor 2 in its bound
should_continue_risk_analysis_two(s, max_rounds) ==
    IF s.risk_debate_state.count >= 2 * max_rounds
    THEN "Risk Judge"
    ELSE LET speaker == s.risk_debate_state.latest_speaker
         IN  IF speaker = RiskyAnalystName THEN "Safe Analyst"
             ELSE IF speaker = SafeAnalystName THEN "Neutral Analyst"
             ELSE "Risky Analyst"

\* should_continue_risk_analysis without the Safe -> Neutral case
should_continue_risk_analysis_skip(s, max_rounds) ==
    IF s.risk_debate_state.count >= 3 * max_rounds
    THEN "Risk Judge"
    ELSE LET speaker == s.risk_debate_state.latest_speaker
         IN  IF speaker = RiskyAnalystName THEN "Safe Analyst"
             ELSE "Risky Analyst"

\* should_continue_risk_analysis leaving the debate for a node name that is not registered
should_continue_risk_analysis_manager(s, max_rounds) ==
    IF s.risk_debate_state.count >= 3 * max_rounds
    THEN "Risk Manager"
    ELSE LET speaker == s.risk_debate_state.latest_speaker
         IN  IF speaker = RiskyAnalystName THEN "Safe Analyst"
             ELSE IF speaker = SafeAnalystName THEN "Neutral Analyst"
             ELSE "Risky Analyst"

should_continue_risk_analysis(s, max_rounds) ==
    IF s.risk_debate_state.count >= 3 * max_rounds
    THEN "Risk Judge"
    ELSE LET speaker == s.risk_debate_state.latest_speaker
         IN  IF speaker = RiskyAnalystName THEN "Safe Analyst"
             ELSE IF speaker = SafeAnalystName THEN "Neutral Analyst"
             ELSE "Risky Analyst"

----------------------------------------------------------------------------
(* build_graph: nodes, their parameters, and edges. *)

AnalystNodes ==
    {"Market Analyst", "Social Analyst", "News Analyst", "Fundamentals Analyst"}

ResearcherNodes ==
    {"Bull Researcher", "Bear Researcher"}

RiskDebatorNodes ==
    {"Risky Analyst", "Safe Analyst", "Neutral Analyst"}

StageNodes ==
    AnalystNodes \cup ResearcherNodes \cup RiskDebatorNodes
        \cup {"Research Manager", "Trader", "Risk Judge"}

\* every node build_graph registers: "tools" and "Msg Clear" get no edge
GraphNodes ==
    StageNodes \cup {"tools", "Msg Clear"}

\* the output_field create_analyst_node is given for each analyst node
OutputField(n) ==
    CASE n = "Market Analyst" -> "market_report"
      [] n = "Social Analyst" -> "sentiment_report"
      [] n = "News Analyst" -> "news_report"
      [] n = "Fundamentals Analyst" -> "fundamentals_report"

\* the agent_name create_researcher_node / create_risk_debator is given
AgentName(n) ==
    CASE n = "Bull Researcher" -> BullResearcherName
      [] n = "Bear Researcher" -> BearResearcherName
      [] n = "Risky Analyst" -> RiskyAnalystName
      [] n = "Safe Analyst" -> SafeAnalystName
      [] n = "Neutral Analyst" -> NeutralAnalystName

\* the node function registered under name n, applied to s and the reasoner's answer
NodeUpdate(n, s, response) ==
    CASE n \in AnalystNodes -> analyst_node(s, OutputField(n), response)
      [] n \in ResearcherNodes -> researcher_node(s, AgentName(n), response.content)
      [] n = "Research Manager" -> research_manager_node(s, response.content)
      [] n = "Trader" -> trader_node(s, TraderName, response.content)
      [] n \in RiskDebatorNodes -> risk_debator_node(s, AgentName(n), response.content)
      [] n = "Risk Judge" -> risk_manager_node(s, response.content)

\* the dict a node was called with, as the call leaves it
NodeArg(n, s, response) ==
    CASE n \in ResearcherNodes -> researcher_node_arg(s, AgentName(n), response.content)
      [] n \in RiskDebatorNodes -> risk_debator_node_arg(s, AgentName(n), response.content)
      [] OTHER -> s

\* Merge putting the returned messages in front of the message log
Merge_prepend(s, upd) ==
    [k \in DOMAIN s |->
        IF k \in DOMAIN upd
        THEN IF k = "messages" THEN upd[k] \o s[k] ELSE upd[k]
        ELSE s[k]]

\* Merge replacing the message log by the returned messages
Merge_replace(s, upd) ==
    [k \in DOMAIN s |-> IF k \in DOMAIN upd THEN upd[k] ELSE s[k]]

\* the state after a node's partial update: every returned key replaces the
\* old value, except messages, whose reducer appends
Merge(s, upd) ==
    [k \in DOMAIN s |->
        IF k \in DOMAIN upd
        THEN IF k = "messages" THEN s[k] \o upd[k] ELSE upd[k]
        ELSE s[k]]

EntryPoint ==
    "Market Analyst"


\* the graph with the risk debate's exit wired to END instead of the Risk Judge
Edge_exit_to_end(n, s, mdr, mrr) ==
    CASE n = "Market Analyst" -> "Social Analyst"
      [] n = "Social Analyst" -> "News Analyst"
      [] n = "News Analyst" -> "Fundamentals Analyst"
      [] n = "Fundamentals Analyst" -> "Bull Researcher"
      [] n \in ResearcherNodes -> should_continue_debate(s, mdr)
      [] n = "Research Manager" -> "Trader"
      [] n = "Trader" -> "Risky Analyst"
      [] n \in RiskDebatorNodes ->
            IF should_continue_risk_analysis(s, mrr) = "Risk Judge"
            THEN "END"
            ELSE should_continue_risk_analysis(s, mrr)
      [] n = "Risk Judge" -> "END"

\* the graph with the Research Manager wired to the risk debate, past the Trader
Edge_skip_trader(n, s, mdr, mrr) ==
    CASE n = "Market Analyst" -> "Social Analyst"
      [] n = "Social Analyst" -> "News Analyst"
      [] n = "News Analyst" -> "Fundamentals Analyst"
      [] n = "Fundamentals Analyst" -> "Bull Researcher"
      [] n \in ResearcherNodes -> should_continue_debate(s, mdr)
      [] n = "Research Manager" -> "Risky Analyst"
      [] n = "Trader" -> "Risky Analyst"
      [] n \in RiskDebatorNodes -> should_continue_risk_analysis(s, mrr)
      [] n = "Risk Judge" -> "END"

\* the graph with the Fundamentals Analyst wired to the Bear Researcher
Edge_bear_first(n, s, mdr, mrr) ==
    CASE n = "Market Analyst" -> "Social Analyst"
      [] n = "Social Analyst" -> "News Analyst"
      [] n = "News Analyst" -> "Fundamentals Analyst"
      [] n = "Fundamentals Analyst" -> "Bear Researcher"
      [] n \in ResearcherNodes -> should_continue_debate(s, mdr)
      [] n = "Research Manager" -> "Trader"
      [] n = "Trader" -> "Risky Analyst"
      [] n \in RiskDebatorNodes -> should_continue_risk_analysis(s, mrr)
      [] n = "Risk Judge" -> "END"

\* the graph with the News Analyst wired straight to the Bull Researcher
Edge_skip_fundamentals(n, s, mdr, mrr) ==
    CASE n = "Market Analyst" -> "Social Analyst"
      [] n = "Social Analyst" -> "News Analyst"
      [] n = "News Analyst" -> "Bull Researcher"
      [] n = "Fundamentals Analyst" -> "Bull Researcher"
      [] n \in ResearcherNodes -> should_continue_debate(s, mdr)
      [] n = "Research Manager" -> "Trader"
      [] n = "Trader" -> "Risky Analyst"
      [] n \in RiskDebatorNodes -> should_continue_risk_analysis(s, mrr)
      [] n = "Risk Judge" -> "END"

\* add_edge / add_conditional_edges: the node that follows n, s being the merged state
Edge(n, s, mdr, mrr) ==
    CASE n = "Market Analyst" -> "Social Analyst"
      [] n = "Social Analyst" -> "News Analyst"
      [] n = "News Analyst" -> "Fundamentals Analyst"
      [] n = "Fundamentals Analyst" -> "Bull Researcher"
      [] n \in ResearcherNodes -> should_continue_debate(s, mdr)
      [] n = "Research Manager" -> "Trader"
      [] n = "Trader" -> "Risky Analyst"
      [] n \in RiskDebatorNodes -> should_continue_risk_analysis(s, mrr)
      [] n = "Risk Judge" -> "END"

\* the graph with a second edge out of the Fundamentals Analyst
PlainEdges_fan_out ==
    {<<"Market Analyst", "Social Analyst">>,
     <<"Social Analyst", "News Analyst">>,
     <<"News Analyst", "Fundamentals Analyst">>,
     <<"Fundamentals Analyst", "Bull Researcher">>,
     <<"Fundamentals Analyst", "Bear Researcher">>,
     <<"Research Manager", "Trader">>,
     <<"Trader", "Risky Analyst">>,
     <<"Risk Judge", "END">>}

\* workflow.add_edge(a, b)
PlainEdges ==
    {<<"Market Analyst", "Social Analyst">>,
     <<"Social Analyst", "News Analyst">>,
     <<"News Analyst", "Fundamentals Analyst">>,
     <<"Fundamentals Analyst", "Bull Researcher">>,
     <<"Research Manager", "Trader">>,
     <<"Trader", "Risky Analyst">>,
     <<"Risk Judge", "END">>}

\* the nodes the edges leaving n schedule, s being the merged state
Triggered(n, s, mdr, mrr) ==
    {edge[2] : edge \in {pe \in PlainEdges : pe[1] = n}}
        \cup (IF n \in ResearcherNodes THEN {should_continue_debate(s, mdr)} ELSE {})
        \cup (IF n \in RiskDebatorNodes
              THEN {should_continue_risk_analysis(s, mrr)} ELSE {})

----------------------------------------------------------------------------
(* extract_signal and SignalProcessor.process_signal (src/eval/signal.py). *)


\* process_signal searching the decision as written, without lower()
process_signal_no_lower(trade_decision) ==
    IF trade_decision = NoneText \/ trade_decision = EmptyStr
    THEN "HOLD"
    ELSE IF Contains(trade_decision, BuyWord) THEN "BUY"
         ELSE IF Contains(trade_decision, SellWord) THEN "SELL"
         ELSE "HOLD"

process_signal(trade_decision) ==
    IF trade_decision = NoneText \/ trade_decision = EmptyStr
    THEN "HOLD"
    ELSE LET decision_lower == Lower(trade_decision)
         IN  IF Contains(decision_lower, BuyWord) THEN "BUY"
             ELSE IF Contains(decision_lower, SellWord) THEN "SELL"
             ELSE "HOLD"

extract_signal(final_state) ==
    IF IsNone(final_state) \/ DOMAIN final_state = {}
          \/ "final_trade_decision" \notin DOMAIN final_state
    THEN "HOLD"
    ELSE process_signal(final_state["final_trade_decision"])

----------------------------------------------------------------------------
(* src/tracing: the global ExecutionTracer and what the code records in it. *)

\* ExecutionTracer(session_id)
ExecutionTracer(session_id) ==
    [session_id |-> session_id, traces |-> << >>, current_step |-> 0]

\* ExecutionTracer.add_step: the step counter goes up and a TraceStep is appended
add_step(t, agent_name, message, level) ==
    [t EXCEPT !.current_step = @ + 1,
              !.traces = Append(@, [step_id |-> t.current_step + 1,
                                    agent_name |-> agent_name,
                                    level |-> level,
                                    message |-> message])]

add_reasoning(t, agent_name) ==
    add_step(t, agent_name, "Reasoning Process", "reasoning")

add_decision(t, agent_name) ==
    add_step(t, agent_name, "Decision", "decision")

add_success(t, agent_name, message) ==
    add_step(t, agent_name, message, "success")

add_error(t, agent_name) ==
    add_step(t, agent_name, "Error", "error")

\* a call evaluates its argument once and passes the object it evaluates to
ByValue(F(_), arg) ==
    CHOOSE out \in {F(x) : x \in {arg}} : TRUE

\* the two module globals before their first use: _global_tracer (the address
\* of an ExecutionTracer, 0 for None) and _global_reasoning_tracer (None).
\* heap holds the ExecutionTracer objects that are alive, by address, and
\* allocated counts the ExecutionTracer objects created so far.
NoTracers ==
    [heap |-> << >>, allocated |-> 0, global_tracer |-> 0,
     global_reasoning_tracer |-> None]

\* a new ExecutionTracer object, at the next address
Allocate(tr_arg, obj) ==
    ByValue(LAMBDA tr :
        [tr EXCEPT !.heap = ((tr.allocated + 1) :> obj) @@ @,
                   !.allocated = @ + 1],
        tr_arg)

\* an ExecutionTracer neither global refers to is freed
Collect(tr_arg) ==
    ByValue(LAMBDA tr :
        LET live == {tr.global_tracer}
                      \cup (IF IsNone(tr.global_reasoning_tracer) THEN {}
                            ELSE {tr.global_reasoning_tracer.execution_tracer})
        IN  [tr EXCEPT !.heap = [a \in (DOMAIN tr.heap) \cap live |-> tr.heap[a]]],
        tr_arg)

\* the session_id ExecutionTracer() gives itself: "session_" and the clock's
\* seconds, which are left out
SessionPrefix ==
    <<"s", "e", "s", "s", "i", "o", "n", "_">>

\* get_tracer: the global tracer, created on first use
get_tracer(tr_arg) ==
    ByValue(LAMBDA tr :
        IF tr.global_tracer = 0
        THEN LET t1 == Allocate(tr, ExecutionTracer(SessionPrefix))
             IN  [t1 EXCEPT !.global_tracer = t1.allocated]
        ELSE tr,
        tr_arg)

\* reset_tracer: _global_tracer = ExecutionTracer(session_id)
reset_tracer(tr_arg, session_id) ==
    ByValue(LAMBDA tr :
        LET t1 == Allocate(tr, ExecutionTracer(session_id))
        IN  Collect([t1 EXCEPT !.global_tracer = t1.allocated]),
        tr_arg)

\* ReasoningTracer(): execution_tracer is the ExecutionTracer passed, which
\* __init__ takes from get_tracer() when none is passed
ReasoningTracer(execution_tracer) ==
    [execution_tracer |-> execution_tracer, reasoning_steps |-> << >>,
     current_chain |-> << >>]

\* get_reasoning_tracer: the global reasoning tracer, created on first use
get_reasoning_tracer(tr_arg) ==
    ByValue(LAMBDA tr :
        IF IsNone(tr.global_reasoning_tracer)
        THEN LET t1 == get_tracer(tr)
             IN  [t1 EXCEPT !.global_reasoning_tracer = ReasoningTracer(t1.global_tracer)]
        ELSE tr,
        tr_arg)

\* reset_reasoning_tracer: _global_reasoning_tracer = ReasoningTracer()
reset_reasoning_tracer(tr_arg) ==
    ByValue(LAMBDA tr :
        LET t1 == get_tracer(tr)
        IN  Collect([t1 EXCEPT !.global_reasoning_tracer
                                  = ReasoningTracer(t1.global_tracer)]),
        tr_arg)

\* the ExecutionTracer object _global_tracer refers to
GlobalTracer(tr) ==
    tr.heap[tr.global_tracer]

\* ReasoningTracer._get_step: the index of the first step with this step_id, 0 for None
get_step(r, step_id) ==
    LET hits == {i \in DOMAIN r.reasoning_steps :
                    r.reasoning_steps[i].step_id = step_id}
    IN  IF hits = {} THEN 0 ELSE CHOOSE i \in hits : \A j \in hits : i <= j

\* ReasoningTracer.start_reasoning on the global reasoning tracer; the step_id
\* it returns is the number of the appended step; thought holds the pieces the
\* code joins into one text; timestamp and confidence are left out
start_reasoning(tr_arg, agent_name, initial_thought) ==
    ByValue(LAMBDA tr :
        LET r == tr.global_reasoning_tracer
            step == [step_id |-> Len(r.reasoning_steps) + 1,
                     agent_name |-> agent_name,
                     thought |-> <<initial_thought>>,
                     evidence |-> << >>,
                     next_action |-> "",
                     reasoning_chain |-> << >>]
        IN  [tr EXCEPT !.global_reasoning_tracer.reasoning_steps = Append(@, step),
                       !.global_reasoning_tracer.current_chain = <<initial_thought>>,
                       !.heap[r.execution_tracer] = add_reasoning(@, agent_name)],
        tr_arg)

\* ReasoningTracer.add_evidence
add_evidence(tr_arg, step_id, evidence) ==
    ByValue(LAMBDA tr :
        LET r == tr.global_reasoning_tracer
            i == get_step(r, step_id)
        IN  IF i = 0 THEN tr
            ELSE [tr EXCEPT
                    !.global_reasoning_tracer.reasoning_steps[i].evidence
                        = Append(@, evidence),
                    !.heap[r.execution_tracer]
                        = add_step(@, r.reasoning_steps[i].agent_name, "Evidence", "info")],
        tr_arg)

\* ReasoningTracer.continue_reasoning: the thought goes onto the tracer's
\* current_chain, and the step's reasoning_chain becomes a copy of that chain
continue_reasoning(tr_arg, step_id, thought) ==
    ByValue(LAMBDA tr :
        LET r == tr.global_reasoning_tracer
            i == get_step(r, step_id)
        IN  IF i = 0 THEN tr
            ELSE [tr EXCEPT
                    !.global_reasoning_tracer.reasoning_steps[i].thought
                        = Append(@, thought),
                    !.global_reasoning_tracer.current_chain = Append(@, thought),
                    !.global_reasoning_tracer.reasoning_steps[i].reasoning_chain
                        = Append(r.current_chain, thought),
                    !.heap[r.execution_tracer]
                        = add_reasoning(@, r.reasoning_steps[i].agent_name)],
        tr_arg)

\* ReasoningTracer.conclude_reasoning
conclude_reasoning(tr_arg, step_id, conclusion, next_action) ==
    ByValue(LAMBDA tr :
        LET r == tr.global_reasoning_tracer
            i == get_step(r, step_id)
        IN  IF i = 0 THEN tr
            ELSE [tr EXCEPT
                    !.global_reasoning_tracer.reasoning_steps[i].thought
                        = Append(@, conclusion),
                    !.global_reasoning_tracer.reasoning_steps[i].next_action
                        = next_action,
                    !.heap[r.execution_tracer]
                        = add_decision(@, r.reasoning_steps[i].agent_name)],
        tr_arg)

\* analyst_node's agent_name: the text of the system message between
\* "You are a " and the first ".", in title case, followed by " Analyst"
AnalystAgentName(n) ==
    CASE n = "Market Analyst" ->
            "Trading Assistant Specialized In Analyzing Financial Markets Analyst"
      [] n = "Social Analyst" -> "Social Media Analyst Analyst"
      [] n = "News Analyst" ->
            "News Researcher Analyzing Recent News And Trends Over The Past Week Analyst"
      [] n = "Fundamentals Analyst" ->
            "Researcher Analyzing Fundamental Information About A Company Analyst"

\* what analyst_node records up to and including "Invoking LLM": get_tracer,
\* get_reasoning_tracer, add_step, start_reasoning, add_evidence, add_step;
\* tracer is the object get_tracer returned when the node was entered
analyst_trace_start(tr_arg, agent_name) ==
    ByValue(LAMBDA tr :
        LET t0 == get_reasoning_tracer(get_tracer(tr))
            tracer == t0.global_tracer
            t1 == [t0 EXCEPT !.heap[tracer] =
                      add_step(@, agent_name, "Starting analysis", "info")]
            t2 == start_reasoning(t1, agent_name, "Analyzing")
            reasoning_step_id == Len(t2.global_reasoning_tracer.reasoning_steps)
            t3 == add_evidence(t2, reasoning_step_id, "Stock, Date")
        IN  [t3 EXCEPT !.heap[tracer] = add_step(@, agent_name, "Invoking LLM", "info")],
        tr_arg)

\* what analyst_node records after chain.invoke returned: continue_reasoning,
\* conclude_reasoning, add_success
analyst_trace_success(tr_arg, agent_name) ==
    ByValue(LAMBDA tr :
        LET reasoning_step_id == Len(tr.global_reasoning_tracer.reasoning_steps)
            t1 == continue_reasoning(tr, reasoning_step_id, "Generated analysis report")
            t2 == conclude_reasoning(t1, reasoning_step_id, "Successfully completed",
                                     "Pass results to next agent")
        IN  [t2 EXCEPT !.heap[tr.global_tracer] =
                add_success(@, agent_name, "Completed analysis")],
        tr_arg)

\* what analyst_node's except branch records: add_error, conclude_reasoning
analyst_trace_error(tr_arg, agent_name) ==
    ByValue(LAMBDA tr :
        LET reasoning_step_id == Len(tr.global_reasoning_tracer.reasoning_steps)
            t1 == [tr EXCEPT !.heap[tr.global_tracer] = add_error(@, agent_name)]
        IN  conclude_reasoning(t1, reasoning_step_id, "Analysis failed",
                               "Handle error and continue"),
        tr_arg)

\* the tracers after node n has run: only the analyst nodes record anything
NodeTraces(n, tr, raised) ==
    IF n \in AnalystNodes
    THEN LET started == analyst_trace_start(tr, AnalystAgentName(n))
         IN  IF raised THEN analyst_trace_error(started, AnalystAgentName(n))
             ELSE analyst_trace_success(started, AnalystAgentName(n))
    ELSE tr

AnalysisPrefix ==
    <<"a", "n", "a", "l", "y", "s", "i", "s", "_">>

Underscore ==
    <<"_">>

\* run_full_pipeline resetting the reasoning tracer before the execution tracer
StartTracers_reasoning_first(tr_arg, t, d) ==
    ByValue(LAMBDA tr :
        LET t1 == reset_reasoning_tracer(tr)
            t2 == reset_tracer(t1, AnalysisPrefix \o t \o Underscore \o d)
            t3 == get_reasoning_tracer(get_tracer(t2))
        IN  [t3 EXCEPT !.heap[t3.global_tracer] =
                add_step(@, "System", "Starting Deep Thinking Trading Analysis", "info")],
        tr_arg)

\* run_full_pipeline before graph.invoke: reset_tracer, reset_reasoning_tracer,
\* get_tracer, get_reasoning_tracer and the "System" step that opens the trace
StartTracers(tr_arg, t, d) ==
    ByValue(LAMBDA tr :
        LET t1 == reset_tracer(tr, AnalysisPrefix \o t \o Underscore \o d)
            t2 == reset_reasoning_tracer(t1)
            t3 == get_reasoning_tracer(get_tracer(t2))
        IN  [t3 EXCEPT !.heap[t3.global_tracer] =
                add_step(@, "System", "Starting Deep Thinking Trading Analysis", "info")],
        tr_arg)

----------------------------------------------------------------------------
(* One run of main.py. *)

TypeOK ==
    /\ max_debate_rounds \in 1..MaxRounds
    /\ max_risk_discuss_rounds \in 1..MaxRounds
    /\ node \in StageNodes \cup {"END"}
    /\ pc \in {"invoke", "returned", "done", "call_debate", "call_risk",
               "call_signal", "called_debate", "called_risk", "called_signal",
               "call_node", "called_node", "tracing"}
    /\ signal \in {"", "BUY", "SELL", "HOLD"}
    /\ varied \in 0..MaxVaried

\* a ConditionalLogic constructed with any positive round limits
Init ==
    /\ max_debate_rounds \in 1..MaxRounds
    /\ max_risk_discuss_rounds \in 1..MaxRounds
    /\ ticker \in Tickers
    /\ trade_date \in TradeDates
    /\ state = InitialState(ticker, trade_date)
    /\ node = EntryPoint
    /\ executed = << >>
    /\ pc = "invoke"
    /\ result = None
    /\ signal = ""
    /\ varied = 0
    /\ tracers = StartTracers(NoTracers, ticker, trade_date)

\* the module-level conditional_logic = ConditionalLogic() that build_graph wires in
InitBuilt ==
    /\ max_debate_rounds = DefaultMaxDebateRounds
    /\ max_risk_discuss_rounds = DefaultMaxRiskDiscussRounds
    /\ ticker \in Tickers
    /\ trade_date \in TradeDates
    /\ state = InitialState(ticker, trade_date)
    /\ node = EntryPoint
    /\ executed = << >>
    /\ pc = "invoke"
    /\ result = None
    /\ signal = ""
    /\ varied = 0
    /\ tracers = StartTracers(NoTracers, ticker, trade_date)

\* graph.invoke runs node n: the reasoner answers, the update is merged, the edge is followed
Stage(n) ==
    /\ pc = "invoke"
    /\ node = n
    /\ \E response \in LlmResults(varied) :
          /\ state' = Merge(state, NodeUpdate(n, state, response))
          /\ varied' = IF response = MockResult THEN varied ELSE varied + 1
    /\ node' = Edge(n, state', max_debate_rounds, max_risk_discuss_rounds)
    /\ executed' = Append(executed, n)
    /\ tracers' = NodeTraces(n, tracers, FALSE)
    /\ UNCHANGED <<max_debate_rounds, max_risk_discuss_rounds, pc, result,
                   signal, ticker, trade_date>>

AnalystStage ==
    \E n \in AnalystNodes : Stage(n)

ResearcherStage ==
    \E n \in ResearcherNodes : Stage(n)

ResearchManagerStage ==
    Stage("Research Manager")

TraderStage ==
    Stage("Trader")

RiskDebatorStage ==
    \E n \in RiskDebatorNodes : Stage(n)

RiskJudgeStage ==
    Stage("Risk Judge")


\* the except branch returning the in-progress state with the fallback decision
ReasonerRaises_keeps_state ==
    /\ pc = "invoke"
    /\ node \in StageNodes
    /\ \E e \in ErrorTexts :
          result' = [state EXCEPT !.final_trade_decision = HoldAnalysisFailed]
                       @@ [error |-> e]
    /\ pc' = "returned"
    /\ tracers' = NodeTraces(node, tracers, TRUE)
    /\ UNCHANGED <<max_debate_rounds, max_risk_discuss_rounds, state, node,
                   executed, signal, ticker, trade_date, varied>>

\* the failing node's exception swallowed: the graph skips forward to the next node
ReasonerRaises_skips_forward ==
    /\ pc = "invoke"
    /\ node \in StageNodes
    /\ node' = Edge(node, state, max_debate_rounds, max_risk_discuss_rounds)
    /\ tracers' = NodeTraces(node, tracers, TRUE)
    /\ UNCHANGED <<max_debate_rounds, max_risk_discuss_rounds, state, pc, result,
                   executed, signal, ticker, trade_date, varied>>

\* the reasoner raises inside the current node: nothing is merged, the exception
\* leaves graph.invoke and run_full_pipeline's except branch returns the fallback
ReasonerRaises ==
    /\ pc = "invoke"
    /\ node \in StageNodes
    /\ \E e \in ErrorTexts : result' = FallbackResult(e, ticker, trade_date)
    /\ pc' = "returned"
    /\ tracers' = NodeTraces(node, tracers, TRUE)
    /\ UNCHANGED <<max_debate_rounds, max_risk_discuss_rounds, state, node,
                   executed, signal, ticker, trade_date, varied>>

\* graph.invoke reaches END and run_full_pipeline returns its result
GraphReturns ==
    /\ pc = "invoke"
    /\ node = "END"
    /\ result' = state
    /\ pc' = "returned"
    /\ tracers' = [tracers EXCEPT !.heap[tracers.global_tracer] =
                      add_success(@, "System", "Analysis completed successfully")]
    /\ UNCHANGED <<max_debate_rounds, max_risk_discuss_rounds, state, node,
                   executed, signal, ticker, trade_date, varied>>

\* main.py: signal = extract_signal(final_state)
ExtractSignal ==
    /\ pc = "returned"
    /\ signal' = extract_signal(result)
    /\ pc' = "done"
    /\ UNCHANGED <<max_debate_rounds, max_risk_discuss_rounds, state, node,
                   executed, result, ticker, trade_date, varied,
                   tracers>>

Next ==
    \/ AnalystStage
    \/ ResearcherStage
    \/ ResearchManagerStage
    \/ TraderStage
    \/ RiskDebatorStage
    \/ RiskJudgeStage
    \/ ReasonerRaises
    \/ GraphReturns
    \/ ExtractSignal

Spec ==
    Init /\ [][Next]_vars

SpecBuilt ==
    InitBuilt /\ [][Next]_vars

\* the steps of a run in which every reasoner call returns
NextReturns ==
    \/ AnalystStage
    \/ ResearcherStage
    \/ ResearchManagerStage
    \/ TraderStage
    \/ RiskDebatorStage
    \/ RiskJudgeStage
    \/ GraphReturns
    \/ ExtractSignal

\* as Init, with a single answer of the run left to differ from MockLLM's: the
\* routing reads the counts and the speaker tags the nodes write, never the
\* reasoner's text alone
InitReturns ==
    /\ max_debate_rounds \in 1..MaxRounds
    /\ max_risk_discuss_rounds \in 1..MaxRounds
    /\ ticker \in Tickers
    /\ trade_date \in TradeDates
    /\ state = InitialState(ticker, trade_date)
    /\ node = EntryPoint
    /\ executed = << >>
    /\ pc = "invoke"
    /\ result = None
    /\ signal = ""
    /\ varied = MaxVaried - 1
    /\ tracers = StartTracers(NoTracers, ticker, trade_date)

\* graph.invoke and main run to completion: a step that can be taken is taken
SpecReturns ==
    InitReturns /\ [][NextReturns]_vars /\ WF_vars(NextReturns)

----------------------------------------------------------------------------
(* run_full_pipeline called again in the same process, as the Streamlit    *)
(* app does for every analysis the user starts.                            *)

\* the number of runs of one process; every run creates one ExecutionTracer
MaxRuns ==
    2

OtherTicker ==
    <<"M", "S", "F", "T">>

RunTickers ==
    Tickers \cup {OtherTicker}

\* the next call of run_full_pipeline, the one before having returned: a new
\* initial state, both tracers reset, the "System" step that opens the trace
RunAgain ==
    /\ pc = "done"
    /\ tracers.allocated < MaxRuns
    /\ \E t \in RunTickers, d \in TradeDates :
          /\ ticker' = t
          /\ trade_date' = d
          /\ state' = InitialState(t, d)
          /\ tracers' = StartTracers(tracers, t, d)
    /\ node' = EntryPoint
    /\ executed' = << >>
    /\ pc' = "invoke"
    /\ result' = None
    /\ signal' = ""
    /\ UNCHANGED <<max_debate_rounds, max_risk_discuss_rounds, varied>>

NextRuns ==
    \/ AnalystStage
    \/ ResearcherStage
    \/ ResearchManagerStage
    \/ TraderStage
    \/ RiskDebatorStage
    \/ RiskJudgeStage
    \/ ReasonerRaises
    \/ GraphReturns
    \/ ExtractSignal
    \/ RunAgain

\* the first run of a process whose graph is the one build_graph wires
InitRuns ==
    /\ max_debate_rounds = DefaultMaxDebateRounds
    /\ max_risk_discuss_rounds = DefaultMaxRiskDiscussRounds
    /\ ticker \in Tickers
    /\ trade_date \in TradeDates
    /\ state = InitialState(ticker, trade_date)
    /\ node = EntryPoint
    /\ executed = << >>
    /\ pc = "invoke"
    /\ result = None
    /\ signal = ""
    /\ varied = MaxVaried - 1
    /\ tracers = StartTracers(NoTracers, ticker, trade_date)

SpecRuns ==
    InitRuns /\ [][NextRuns]_vars

----------------------------------------------------------------------------
(* The routing functions and extract_signal applied to arbitrary inputs:   *)
(* any caller may hand them any debate state or any record.                *)

LowerBull ==
    <<"b", "u", "l", "l">>

SpaceBull ==
    <<" ", "B", "u", "l", "l">>

BearTag ==
    <<"B", "e", "a", "r">>

OtherSpeaker ==
    <<"T", "r", "a", "d", "e", "r">>

\* current_response values handed to should_continue_debate
ResponseInputs ==
    Responses
      \cup {BullResearcherName \o ColonSpace \o r : r \in Responses}
      \cup {BearResearcherName \o ColonSpace \o r : r \in Responses}
      \cup {SubSeq(BullTag, 1, k) : k \in 0..Len(BullTag)}
      \cup {LowerBull, SpaceBull, BearTag, BullAnalystName}

\* latest_speaker values handed to should_continue_risk_analysis
SpeakerInputs ==
    {EmptyStr, RiskyAnalystName, SafeAnalystName, NeutralAnalystName,
     OtherSpeaker, SubSeq(RiskyAnalystName, 1, 5), SubSeq(SafeAnalystName, 1, 4)}

SigAlphabet ==
    {"b", "U", "y", "s", "E", "l", "L", "x"}

ProposalBuy ==
    <<"F", "I", "N", "A", "L", " ", "T", "R", "A", "N", "S", "A", "C", "T", "I",
      "O", "N", " ", "P", "R", "O", "P", "O", "S", "A", "L", ":", " ", "*", "*",
      "B", "U", "Y", "*", "*">>

SellNotBuy ==
    <<"S", "e", "l", "l", ",", " ", "d", "o", " ", "n", "o", "t", " ", "B", "u", "y">>

BuyBackSell ==
    <<"b", "u", "y", "b", "a", "c", "k", " ", "t", "h", "e", "n", " ", "S", "E", "L", "L">>

Upsell ==
    <<"U", "p", "s", "e", "l", "l", "i", "n", "g">>

\* final_trade_decision texts handed to extract_signal
SignalTexts ==
    UNION {[1..k -> SigAlphabet] : k \in 0..MaxSigLen}
      \cup Responses
      \cup {ProposalBuy, SellNotBuy, BuyBackSell, Upsell, HoldAnalysisFailed}

\* records (or None) handed to extract_signal
SignalInputs ==
    {None, EmptyDict, [error |-> EmptyStr], [final_trade_decision |-> NoneText]}
      \cup {[final_trade_decision |-> t] : t \in SignalTexts}
      \cup {FallbackResult(e, t, d) : e \in ErrorTexts, t \in Tickers, d \in TradeDates}

\* debate histories handed to the node functions
HistoryInputs ==
    {EmptyStr, Newline \o BullResearcherName \o ColonSpace \o MockResponse,
     Newline \o SafeAnalystName \o ColonSpace \o RespBuy}

\* tracer contents the functions are called under: a trace just opened, and
\* one that holds a failed analysis
TracerInputs ==
    {StartTracers(NoTracers, t, d) : t \in Tickers, d \in TradeDates}
        \cup {NodeTraces("Market Analyst", StartTracers(NoTracers, t, d), TRUE) :
                  t \in Tickers, d \in TradeDates}

InitFn ==
    /\ ticker \in Tickers
    /\ trade_date \in TradeDates
    /\ executed = << >>
    /\ signal = ""
    /\ varied = 0
    /\ tracers \in TracerInputs
    /\ \/ /\ pc = "call_debate"
          /\ max_debate_rounds \in 1..MaxRounds
          /\ max_risk_discuss_rounds = DefaultMaxRiskDiscussRounds
          /\ \E c \in 0..(2 * MaxRounds + 1), r \in ResponseInputs :
                state = [InitialState(ticker, trade_date) EXCEPT
                           !.investment_debate_state.count = c,
                           !.investment_debate_state.current_response = r]
          /\ result = None
       \/ /\ pc = "call_risk"
          /\ max_debate_rounds = DefaultMaxDebateRounds
          /\ max_risk_discuss_rounds \in 1..MaxRounds
          /\ \E c \in 0..(3 * MaxRounds + 1), sp \in SpeakerInputs :
                state = [InitialState(ticker, trade_date) EXCEPT
                           !.risk_debate_state.count = c,
                           !.risk_debate_state.latest_speaker = sp]
          /\ result = None
       \/ /\ pc = "call_signal"
          /\ max_debate_rounds = DefaultMaxDebateRounds
          /\ max_risk_discuss_rounds = DefaultMaxRiskDiscussRounds
          /\ state = InitialState(ticker, trade_date)
          /\ result \in SignalInputs
       \/ /\ pc = "call_node"
          /\ max_debate_rounds = DefaultMaxDebateRounds
          /\ max_risk_discuss_rounds = DefaultMaxRiskDiscussRounds
          /\ \E c \in 0..MaxRounds, h \in HistoryInputs :
                state = [InitialState(ticker, trade_date) EXCEPT
                           !.investment_debate_state.count = c,
                           !.investment_debate_state.history = h,
                           !.investment_debate_state.current_response = h,
                           !.risk_debate_state.count = c,
                           !.risk_debate_state.history = h,
                           !.risk_debate_state.current_safe_response = h]
          /\ result = None
    /\ node \in (IF pc = "call_node" THEN StageNodes ELSE {EntryPoint})

CallShouldContinueDebate ==
    /\ pc = "call_debate"
    /\ node' = should_continue_debate(state, max_debate_rounds)
    /\ pc' = "called_debate"
    /\ UNCHANGED <<max_debate_rounds, max_risk_discuss_rounds, state, executed,
                   result, signal, ticker, trade_date, varied,
                   tracers>>

CallShouldContinueRiskAnalysis ==
    /\ pc = "call_risk"
    /\ node' = should_continue_risk_analysis(state, max_risk_discuss_rounds)
    /\ pc' = "called_risk"
    /\ UNCHANGED <<max_debate_rounds, max_risk_discuss_rounds, state, executed,
                   result, signal, ticker, trade_date, varied,
                   tracers>>

CallExtractSignal ==
    /\ pc = "call_signal"
    /\ signal' = extract_signal(result)
    /\ pc' = "called_signal"
    /\ UNCHANGED <<max_debate_rounds, max_risk_discuss_rounds, state, node,
                   executed, result, ticker, trade_date, varied,
                   tracers>>

\* the node function registered under the name in node is called with state:
\* state becomes the passed dict as the call leaves it, result the returned update
CallNode ==
    /\ pc = "call_node"
    /\ \E response \in LlmResults(varied) :
          /\ state' = NodeArg(node, state, response)
          /\ result' = NodeUpdate(node, state, response)
    /\ pc' = "called_node"
    /\ tracers' = NodeTraces(node, tracers, FALSE)
    /\ UNCHANGED <<max_debate_rounds, max_risk_discuss_rounds, node, executed,
                   signal, ticker, trade_date, varied>>

NextFn ==
    \/ CallShouldContinueDebate
    \/ CallShouldContinueRiskAnalysis
    \/ CallExtractSignal
    \/ CallNode

SpecFn ==
    InitFn /\ [][NextFn]_vars

----------------------------------------------------------------------------
(* The tracing module called directly: any sequence of start_reasoning,    *)
(* continue_reasoning and conclude_reasoning calls on the global           *)
(* ReasoningTracer, and calls of a function wrapped by trace_function.     *)

\* the number of calls made in one behaviour
MaxCalls ==
    4

TraceAgents ==
    {"Agent A", "Agent B"}

\* what a wrapped function does when called: it returns a value or raises
FuncOutcomes ==
    {[kind |-> "returned", value |-> "value"],
     [kind |-> "raised", value |-> "ValueError"]}

\* the parameters of ExecutionTracer.add_success, self apart, and those without a default
add_success_params ==
    [all |-> {"agent_name", "message", "data"},
     required |-> {"agent_name", "message"}]

\* the parameters of ExecutionTracer.add_error, self apart, and those without a default
add_error_params ==
    [all |-> {"agent_name", "error", "data"},
     required |-> {"agent_name", "error"}]

\* a call with these keyword arguments binds to the parameters; Python raises
\* TypeError when a keyword names no parameter or a required one is missing
Binds(params, keywords) ==
    keywords \subseteq params.all /\ params.required \subseteq keywords

TypeError ==
    [kind |-> "raised", value |-> "TypeError"]

\* the wrapper trace_function puts around func, called when func's call has
\* the given outcome: the tracers afterwards and the wrapper's own outcome
trace_function(tr_arg, agent_name, func_outcome) ==
    ByValue(LAMBDA tr :
        LET t0 == get_tracer(tr)
            tracer == t0.global_tracer
            t1 == [t0 EXCEPT !.heap[tracer] =
                      add_step(@, agent_name, "Starting", "info")]
            \* the try block: func, then add_success(agent_name=, message=,
            \* data=, confidence=)
            try == IF func_outcome.kind = "raised"
                   THEN [tracers |-> t1, outcome |-> func_outcome]
                   ELSE IF Binds(add_success_params,
                                 {"agent_name", "message", "data", "confidence"})
                        THEN [tracers |-> [t1 EXCEPT !.heap[tracer] =
                                 add_success(@, agent_name, "Completed")],
                              outcome |-> func_outcome]
                        ELSE [tracers |-> t1, outcome |-> TypeError]
        IN  IF try.outcome.kind = "returned"
            THEN try
            \* except Exception as e: add_error(agent_name=, message=, data=); raise
            ELSE IF Binds(add_error_params, {"agent_name", "message", "data"})
                 THEN [tracers |-> [t1 EXCEPT !.heap[tracer] =
                                       add_error(@, agent_name)],
                       outcome |-> try.outcome]
                 ELSE [tracers |-> t1, outcome |-> TypeError],
        tr_arg)

\* a process that has not touched the tracers yet, or has just reset them
InitTracing ==
    /\ max_debate_rounds = DefaultMaxDebateRounds
    /\ max_risk_discuss_rounds = DefaultMaxRiskDiscussRounds
    /\ ticker \in Tickers
    /\ trade_date \in TradeDates
    /\ state = InitialState(ticker, trade_date)
    /\ node = "END"
    /\ executed = << >>
    /\ pc = "tracing"
    /\ result = None
    /\ signal = ""
    /\ varied = 0
    /\ tracers \in {NoTracers,
                    reset_reasoning_tracer(
                        reset_tracer(NoTracers,
                            AnalysisPrefix \o ticker \o Underscore \o trade_date))}

\* executed logs the calls: the method, the step id passed or returned, and
\* the text passed, which is the call's number so that no two calls pass the same
CallStartReasoning ==
    /\ pc = "tracing"
    /\ Len(executed) < MaxCalls
    /\ \E a \in TraceAgents :
          LET tr == get_reasoning_tracer(tracers)
              thought == Len(executed) + 1
              after == start_reasoning(tr, a, thought)
          IN  /\ tracers' = after
              /\ executed' = Append(executed,
                    [op |-> "start_reasoning",
                     step_id |-> Len(after.global_reasoning_tracer.reasoning_steps),
                     thought |-> thought])
    /\ UNCHANGED <<max_debate_rounds, max_risk_discuss_rounds, state, node, pc,
                   result, signal, ticker, trade_date, varied>>

\* continue_reasoning with the id of any step started so far, or an id not yet given out
CallContinueReasoning ==
    /\ pc = "tracing"
    /\ Len(executed) < MaxCalls
    /\ LET tr == get_reasoning_tracer(tracers)
           thought == Len(executed) + 1
       IN  \E id \in 1..(Len(tr.global_reasoning_tracer.reasoning_steps) + 1) :
              /\ tracers' = continue_reasoning(tr, id, thought)
              /\ executed' = Append(executed,
                    [op |-> "continue_reasoning", step_id |-> id,
                     thought |-> thought])
    /\ UNCHANGED <<max_debate_rounds, max_risk_discuss_rounds, state, node, pc,
                   result, signal, ticker, trade_date, varied>>

CallConcludeReasoning ==
    /\ pc = "tracing"
    /\ Len(executed) < MaxCalls
    /\ LET tr == get_reasoning_tracer(tracers)
           conclusion == Len(executed) + 1
       IN  \E id \in 1..(Len(tr.global_reasoning_tracer.reasoning_steps) + 1) :
              /\ tracers' = conclude_reasoning(tr, id, conclusion, "Proceed")
              /\ executed' = Append(executed,
                    [op |-> "conclude_reasoning", step_id |-> id,
                     thought |-> conclusion])
    /\ UNCHANGED <<max_debate_rounds, max_risk_discuss_rounds, state, node, pc,
                   result, signal, ticker, trade_date, varied>>

\* a function wrapped by trace_function is called; result keeps what the
\* function did and what the wrapper did
CallTraced ==
    /\ pc = "tracing"
    /\ Len(executed) < MaxCalls
    /\ \E a \in TraceAgents, outcome \in FuncOutcomes :
          LET w == trace_function(tracers, a, outcome)
          IN  /\ tracers' = w.tracers
              /\ result' = [func |-> outcome, wrapper |-> w.outcome,
                            steps_before |-> IF tracers.global_tracer = 0 THEN 0
                                             ELSE Len(GlobalTracer(tracers).traces)]
    /\ executed' = Append(executed,
          [op |-> "traced", step_id |-> 0, thought |-> Len(executed) + 1])
    /\ UNCHANGED <<max_debate_rounds, max_risk_discuss_rounds, state, node, pc,
                   signal, ticker, trade_date, varied>>

NextTracing ==
    \/ CallStartReasoning
    \/ CallContinueReasoning
    \/ CallConcludeReasoning
    \/ CallTraced

SpecTracing ==
    InitTracing /\ [][NextTracing]_vars

----------------------------------------------------------------------------
(* Properties. *)

Executed(n) ==
    \E i \in DOMAIN executed : executed[i] = n

\* number of turns of the nodes in S that have been merged
Turns(S) ==
    Cardinality({i \in DOMAIN executed : executed[i] \in S})

\* C1: the investment debate hands control to the Research Manager exactly
\* when count >= 2 * max_debate_rounds: the Research Manager is the current
\* node or has run only if the bound is reached, a debater is the current node
\* whenever a started debate is below the bound, and no turn runs once the
\* bound is reached, so count never exceeds it.
C1_DebateExitsAtBound ==
    LET count == state.investment_debate_state.count
        bound == 2 * max_debate_rounds
        handed == node = "Research Manager" \/ Executed("Research Manager")
    IN  /\ count <= bound
        /\ handed <=> count >= bound
        /\ (0 < count /\ count < bound) => node \in ResearcherNodes
        /\ node \in ResearcherNodes => count < bound

C1_Witness ==
    /\ max_debate_rounds = 2
    /\ node = "Research Manager"
    /\ pc = "invoke"
    /\ state.investment_debate_state.count = 4

\* C2: the risk debate hands control to the Risk Judge exactly when
\* count >= 3 * max_risk_discuss_rounds, and to a debater node whenever a
\* started debate's count is below that bound.
C2_RiskExitsAtBound ==
    LET count == state.risk_debate_state.count
        bound == 3 * max_risk_discuss_rounds
        handed == node \in {"Risk Judge", "END"} \/ Executed("Risk Judge")
    IN  /\ count <= bound
        /\ handed <=> count >= bound
        /\ (0 < count /\ count < bound) => node \in RiskDebatorNodes
        /\ node \in RiskDebatorNodes => count < bound

C2_Witness ==
    /\ max_risk_discuss_rounds = 2
    /\ node = "Risk Judge"
    /\ pc = "invoke"
    /\ state.risk_debate_state.count = 6

\* the run has returned from the except branch: graph.invoke did not reach END
RunFailed ==
    pc \in {"returned", "done"} /\ node # "END"

\* the run has returned graph.invoke's result
RunSucceeded ==
    pc \in {"returned", "done"} /\ node = "END"

\* the fields the stages after the first analysis stage write
LaterFields ==
    {"sentiment_report", "news_report", "fundamentals_report",
     "investment_debate_state", "investment_plan", "trader_investment_plan",
     "risk_debate_state"}

\* C3: the pipeline as built, with max_debate_rounds = 2 and
\* max_risk_discuss_rounds = 1 configured, runs exactly 4 investment-debate
\* turns before the Research Manager and exactly 3 risk-debate turns before the
\* Risk Judge, and a run without a failing reasoner call ends with a non-empty
\* final_trade_decision.
C3_ConfiguredRounds ==
    /\ node = "Research Manager" =>
          Turns(ResearcherNodes) = 2 * ConfigMaxDebateRounds
    /\ node = "Risk Judge" =>
          Turns(RiskDebatorNodes) = 3 * ConfigMaxRiskDiscussRounds
    /\ RunSucceeded => result.final_trade_decision # EmptyStr

\* C4 as stated: when the reasoner raises in the Social Analyst, the returned
\* record has the fallback decision, still holds the market_report the first
\* stage wrote, and its later fields are empty.
C4_FailureKeepsMarketReport ==
    (RunFailed /\ node = "Social Analyst") =>
        /\ result.final_trade_decision = HoldAnalysisFailed
        /\ "market_report" \in DOMAIN result
        /\ result.market_report = state.market_report
        /\ \A f \in LaterFields \cap DOMAIN result :
              result[f] = InitialState(ticker, trade_date)[f]

\* C4 as amended: when the reasoner raises in the Social Analyst, after the
\* Market Analyst has written market_report, the returned record has the
\* fallback decision and holds neither market_report nor any later field.
C4_FailureDropsMarketReport ==
    (RunFailed /\ node = "Social Analyst") =>
        /\ executed = <<"Market Analyst">>
        /\ result.final_trade_decision = HoldAnalysisFailed
        /\ "market_report" \notin DOMAIN result
        /\ LaterFields \cap DOMAIN result = {}

C4_Witness ==
    /\ RunFailed
    /\ node = "Social Analyst"
    /\ state.market_report = MockResponse

\* C5: on a failure at any stage the returned record is the fallback: the
\* decision "HOLD - Analysis failed", the error description, the ticker and the
\* date, and nothing the stages produced before the failure.
C5_FailureReturnsFallback ==
    RunFailed =>
        /\ DOMAIN result =
              {"final_trade_decision", "error", "company_of_interest", "trade_date"}
        /\ result.final_trade_decision = HoldAnalysisFailed
        /\ result.error \in ErrorTexts
        /\ result.company_of_interest = ticker
        /\ result.trade_date = trade_date

C5_Witness ==
    /\ RunFailed
    /\ node = "Risk Judge"
    /\ state.investment_plan # EmptyStr
    /\ state.risk_debate_state.history # EmptyStr

\* C6: what run_full_pipeline returns is either the state after the Risk Judge
\* has been merged, every writing stage having run, or the fallback record.
C6_FullStateOrFallback ==
    pc \in {"returned", "done"} =>
        \/ /\ result = state
           /\ node = "END"
           /\ executed[Len(executed)] = "Risk Judge"
           /\ \A n \in AnalystNodes \cup {"Research Manager", "Trader", "Risk Judge"} :
                 Turns({n}) = 1
        \/ /\ node # "END"
           /\ \E e \in ErrorTexts : result = FallbackResult(e, ticker, trade_date)

C6_Witness ==
    /\ pc = "returned"
    /\ node = "END"
    /\ result.final_trade_decision = RespSell

\* C7: below the bound, should_continue_debate returns the Bear Researcher if
\* current_response begins with the characters B, u, l, l and the Bull
\* Researcher for every other current_response, the empty one and one tagged
\* "Bear" included.
C7_TwoPartyAlternation ==
    LET ds == state.investment_debate_state
        cr == ds.current_response
        bull == /\ Len(cr) >= 4
                /\ cr[1] = "B" /\ cr[2] = "u" /\ cr[3] = "l" /\ cr[4] = "l"
    IN  (pc = "called_debate" /\ ds.count < 2 * max_debate_rounds) =>
            /\ bull => node = "Bear Researcher"
            /\ ~bull => node = "Bull Researcher"
            /\ cr = EmptyStr => node = "Bull Researcher"
            /\ (Len(cr) >= 4 /\ SubSeq(cr, 1, 4) = BearTag) => node = "Bull Researcher"

C7_Witness ==
    /\ pc = "called_debate"
    /\ state.investment_debate_state.count < 2 * max_debate_rounds
    /\ state.investment_debate_state.current_response = EmptyStr
    /\ node = "Bull Researcher"

\* C8: below the bound, should_continue_risk_analysis returns Safe Analyst
\* after Risky Analyst, Neutral Analyst after Safe Analyst, Risky Analyst after
\* Neutral Analyst, and Risky Analyst when latest_speaker is unset.
C8_ThreePartyRotation ==
    LET rs == state.risk_debate_state
        sp == rs.latest_speaker
    IN  (pc = "called_risk" /\ rs.count < 3 * max_risk_discuss_rounds) =>
            /\ sp = RiskyAnalystName => node = "Safe Analyst"
            /\ sp = SafeAnalystName => node = "Neutral Analyst"
            /\ sp = NeutralAnalystName => node = "Risky Analyst"
            /\ sp = EmptyStr => node = "Risky Analyst"

C8_Witness ==
    /\ pc = "called_risk"
    /\ state.risk_debate_state.count < 3 * max_risk_discuss_rounds
    /\ state.risk_debate_state.latest_speaker = SafeAnalystName
    /\ node = "Neutral Analyst"

IsPrefix(p, q) ==
    Len(p) <= Len(q) /\ \A i \in 1..Len(p) : q[i] = p[i]

\* old followed by exactly one turn tagged with name
OneTurnAppended(old, new, name) ==
    /\ IsPrefix(old, new)
    /\ \E c \in Responses :
          /\ Len(new) = Len(old) + 1 + Len(name) + 2 + Len(c)
          /\ new[Len(old) + 1] = "\n"
          /\ SubSeq(new, Len(old) + 2, Len(old) + 1 + Len(name)) = name
          /\ new[Len(old) + Len(name) + 2] = ":"
          /\ new[Len(old) + Len(name) + 3] = " "
          /\ SubSeq(new, Len(old) + Len(name) + 4, Len(new)) = c

\* C9: every debate turn leaves its debate's history equal to the old history
\* followed by exactly one turn tagged with the speaker's name, and no step of a
\* run truncates or alters what a history already holds.
C9_HistoryAppendOnly ==
    [][ LET ih == state.investment_debate_state.history
            ih2 == state'.investment_debate_state.history
            rh == state.risk_debate_state.history
            rh2 == state'.risk_debate_state.history
            turn == pc = "invoke" /\ executed' # executed
        IN  /\ IsPrefix(ih, ih2)
            /\ IsPrefix(rh, rh2)
            /\ (turn /\ node = "Bull Researcher") =>
                  OneTurnAppended(ih, ih2, BullResearcherName)
            /\ (turn /\ node = "Bear Researcher") =>
                  OneTurnAppended(ih, ih2, BearResearcherName)
            /\ (turn /\ node = "Risky Analyst") =>
                  OneTurnAppended(rh, rh2, RiskyAnalystName)
            /\ (turn /\ node = "Safe Analyst") =>
                  OneTurnAppended(rh, rh2, SafeAnalystName)
            /\ (turn /\ node = "Neutral Analyst") =>
                  OneTurnAppended(rh, rh2, NeutralAnalystName)
      ]_vars

C9_Witness ==
    /\ pc = "invoke"
    /\ state.investment_debate_state.count = 4
    /\ state.risk_debate_state.count = 6
    /\ varied = 1

BuyAt(s, i) ==
    s[i] \in {"b", "B"} /\ s[i + 1] \in {"u", "U"} /\ s[i + 2] \in {"y", "Y"}

SellAt(s, i) ==
    /\ s[i] \in {"s", "S"} /\ s[i + 1] \in {"e", "E"}
    /\ s[i + 2] \in {"l", "L"} /\ s[i + 3] \in {"l", "L"}

\* C10: extract_signal returns BUY when the final decision contains "buy" in
\* any letter case, otherwise SELL when it contains "sell" in any letter case,
\* otherwise HOLD; HOLD when the record or the field is missing or empty; and
\* never anything but BUY, SELL or HOLD.
C10_SignalExtraction ==
    pc = "called_signal" =>
        LET missing == \/ IsNone(result)
                       \/ "final_trade_decision" \notin DOMAIN result
            text == result["final_trade_decision"]
            empty == missing \/ text = NoneText \/ text = EmptyStr
            buy == ~empty /\ \E i \in 1..(Len(text) - 2) : BuyAt(text, i)
            sell == ~empty /\ \E i \in 1..(Len(text) - 3) : SellAt(text, i)
        IN  /\ signal \in {"BUY", "SELL", "HOLD"}
            /\ empty => signal = "HOLD"
            /\ buy => signal = "BUY"
            /\ (sell /\ ~buy) => signal = "SELL"
            /\ (~buy /\ ~sell) => signal = "HOLD"

C10_Witness ==
    /\ pc = "called_signal"
    /\ result = [final_trade_decision |-> SellNotBuy]
    /\ signal = "BUY"

----------------------------------------------------------------------------
(* Stage order, failure propagation, termination. *)

\* the position of a node's phase in the pipeline
Phase(n) ==
    CASE n = "Market Analyst" -> 1
      [] n = "Social Analyst" -> 2
      [] n = "News Analyst" -> 3
      [] n = "Fundamentals Analyst" -> 4
      [] n \in ResearcherNodes -> 5
      [] n = "Research Manager" -> 6
      [] n = "Trader" -> 7
      [] n \in RiskDebatorNodes -> 8
      [] n = "Risk Judge" -> 9
      [] OTHER -> 10

\* the nodes that are not debaters
SingleNodes ==
    AnalystNodes \cup {"Research Manager", "Trader", "Risk Judge"}

\* C11: the stages of a run execute in the order Market, Social, News,
\* Fundamentals Analyst, then the investment-debate turns, then the Research
\* Manager, then the Trader, then the risk-debate turns, then the Risk Judge:
\* no stage of an earlier phase runs after one of a later phase, only debaters
\* repeat, the node about to run is never of an earlier phase than the last one
\* run, and a run that reaches END has gone through every phase in that order.
C11_StageOrder ==
    /\ \A i \in 1..(Len(executed) - 1) :
          /\ Phase(executed[i]) <= Phase(executed[i + 1])
          /\ Phase(executed[i]) = Phase(executed[i + 1]) =>
                Phase(executed[i]) \in {5, 8}
          /\ Phase(executed[i + 1]) <= Phase(executed[i]) + 1
    /\ executed # << >> =>
          /\ executed[1] = "Market Analyst"
          /\ Phase(node) >= Phase(executed[Len(executed)])
          /\ Phase(node) <= Phase(executed[Len(executed)]) + 1
    /\ node = "END" =>
          /\ Len(executed) >= 9
          /\ SubSeq(executed, 1, 4) = <<"Market Analyst", "Social Analyst",
                                        "News Analyst", "Fundamentals Analyst">>
          /\ executed[Len(executed)] = "Risk Judge"
          /\ \A p \in 1..9 : \E i \in DOMAIN executed : Phase(executed[i]) = p

C11_Witness ==
    /\ RunSucceeded
    /\ max_debate_rounds = 2
    /\ max_risk_discuss_rounds = 2
    /\ Len(executed) = 17

\* C12: a stage whose reasoner call raises merges nothing (the state and the
\* sequence of merged stages stay as they were), the run leaves graph.invoke
\* for the run boundary in that same step, and from then on no stage runs:
\* neither the failing stage again nor any later one.
C12_FailureAborts ==
    [][ LET raised == pc = "invoke" /\ node \in StageNodes /\ executed' = executed
        IN  /\ raised =>
                  /\ state' = state
                  /\ node' = node
                  /\ pc' = "returned"
                  /\ \E e \in ErrorTexts : result' = FallbackResult(e, ticker, trade_date)
            /\ RunFailed =>
                  /\ state' = state
                  /\ executed' = executed
                  /\ node' = node
                  /\ pc' \in {"returned", "done"}
      ]_vars

C12_Witness ==
    /\ RunFailed
    /\ pc = "done"
    /\ node = "Bear Researcher"
    /\ executed[Len(executed)] = "Bull Researcher"
    /\ state.sentiment_report = BullTag

----------------------------------------------------------------------------
(* The tool branch of the analysis stages. *)

\* the last merged stage is n and graph.invoke has not returned
JustRan(n) ==
    /\ pc = "invoke"
    /\ executed # << >>
    /\ executed[Len(executed)] = n

\* C14: every analysis stage has a conditional branch to the shared tools
\* node: after an analysis stage whose reasoner answer asks for a
\* data-retrieval call, the node to run next is "tools" (which then hands
\* control back to the same analysis stage), not the next stage of the pipeline.
C14_ToolBranch ==
    \A n \in AnalystNodes :
        (JustRan(n) /\ should_continue_analyst(state) = "tools") =>
            /\ node = "tools"
            /\ node \in GraphNodes

----------------------------------------------------------------------------
(* The initial state and the debate counters. *)

\* C15: the state a run starts from, before any stage has been merged, has
\* empty reports, investment plan, trader proposal and final decision, empty
\* debate histories (combined and per-party) and current responses, an unset
\* latest_speaker, and both debate counts at 0.
C15_InitialStateEmpty ==
    executed = << >> =>
        /\ \A f \in {"market_report", "sentiment_report", "news_report",
                     "fundamentals_report", "investment_plan",
                     "trader_investment_plan", "final_trade_decision"} :
              state[f] = EmptyStr
        /\ \A f \in {"history", "bull_history", "bear_history", "current_response"} :
              state.investment_debate_state[f] = EmptyStr
        /\ \A f \in {"history", "risky_history", "safe_history", "neutral_history",
                     "current_risky_response", "current_safe_response",
                     "current_neutral_response", "latest_speaker"} :
              state.risk_debate_state[f] = EmptyStr
        /\ state.investment_debate_state.count = 0
        /\ state.risk_debate_state.count = 0

C15_Witness ==
    /\ pc = "invoke"
    /\ executed = << >>
    /\ node = EntryPoint
    /\ state.company_of_interest = DefaultTicker
    /\ Len(state.messages) = 1

\* C16: each debate's count is 0 when the run starts, every turn of a debate
\* adds exactly 1 to that debate's count and leaves the other debate's count
\* alone, every other step leaves both counts alone, and no step decreases one.
C16_CountPlusOnePerTurn ==
    /\ (state.investment_debate_state.count = 0 /\ state.risk_debate_state.count = 0)
    /\ [][ LET ic == state.investment_debate_state.count
               ic2 == state'.investment_debate_state.count
               rc == state.risk_debate_state.count
               rc2 == state'.risk_debate_state.count
               turn == pc = "invoke" /\ executed' # executed
           IN  /\ ic2 >= ic
               /\ rc2 >= rc
               /\ (turn /\ node \in ResearcherNodes) => (ic2 = ic + 1 /\ rc2 = rc)
               /\ (turn /\ node \in RiskDebatorNodes) => (rc2 = rc + 1 /\ ic2 = ic)
               /\ ~(turn /\ node \in ResearcherNodes \cup RiskDebatorNodes) =>
                     (ic2 = ic /\ rc2 = rc)
         ]_vars

C16_Witness ==
    /\ pc = "invoke"
    /\ node = "Risk Judge"
    /\ state.investment_debate_state.count = 2
    /\ state.risk_debate_state.count = 6
    /\ Turns(RiskDebatorNodes) = 6

----------------------------------------------------------------------------
(* The per-party histories. *)

\* C17: a Bull Researcher turn appends its tagged message to bull_history and
\* leaves bear_history unchanged, and a Bear Researcher turn appends its tagged
\* message to bear_history and leaves bull_history unchanged.
C17_OwnPartyHistory ==
    [][ LET ds == state.investment_debate_state
            ds2 == state'.investment_debate_state
            turn == pc = "invoke" /\ executed' # executed
        IN  /\ (turn /\ node = "Bull Researcher") =>
                  /\ OneTurnAppended(ds.bull_history, ds2.bull_history,
                                     BullResearcherName)
                  /\ ds2.bear_history = ds.bear_history
            /\ (turn /\ node = "Bear Researcher") =>
                  /\ OneTurnAppended(ds.bear_history, ds2.bear_history,
                                     BearResearcherName)
                  /\ ds2.bull_history = ds.bull_history
      ]_vars

\* C18: a risk-debate turn appends its tagged message to the speaking party's
\* own history (risky_history, safe_history or neutral_history) and leaves the
\* other two alone, so that when the debate is over each per-party history
\* holds that party's turns, one at least.
C18_RiskPartyHistories ==
    [][ LET rs == state.risk_debate_state
            rs2 == state'.risk_debate_state
            turn == pc = "invoke" /\ executed' # executed
        IN  /\ (turn /\ node = "Risky Analyst") =>
                  /\ OneTurnAppended(rs.risky_history, rs2.risky_history,
                                     RiskyAnalystName)
                  /\ rs2.safe_history = rs.safe_history
                  /\ rs2.neutral_history = rs.neutral_history
            /\ (turn /\ node = "Safe Analyst") =>
                  /\ OneTurnAppended(rs.safe_history, rs2.safe_history,
                                     SafeAnalystName)
                  /\ rs2.risky_history = rs.risky_history
                  /\ rs2.neutral_history = rs.neutral_history
            /\ (turn /\ node = "Neutral Analyst") =>
                  /\ OneTurnAppended(rs.neutral_history, rs2.neutral_history,
                                     NeutralAnalystName)
                  /\ rs2.risky_history = rs.risky_history
                  /\ rs2.safe_history = rs.safe_history
            /\ (turn /\ node' = "Risk Judge") =>
                  /\ rs2.risky_history # EmptyStr
                  /\ rs2.safe_history # EmptyStr
                  /\ rs2.neutral_history # EmptyStr
      ]_vars

----------------------------------------------------------------------------
(* Which stage writes which field. *)

\* the stage designated to write field f
Writer(f) ==
    CASE f = "market_report" -> "Market Analyst"
      [] f = "sentiment_report" -> "Social Analyst"
      [] f = "news_report" -> "News Analyst"
      [] f = "fundamentals_report" -> "Fundamentals Analyst"
      [] f = "investment_plan" -> "Research Manager"
      [] f = "trader_investment_plan" -> "Trader"
      [] f = "final_trade_decision" -> "Risk Judge"

WrittenOnceFields ==
    {"market_report", "sentiment_report", "news_report", "fundamentals_report",
     "investment_plan", "trader_investment_plan", "final_trade_decision"}

\* C19: each report, the investment plan, the trader proposal and the final
\* decision is empty as long as its designated stage has not run; that stage
\* runs at most once in a run, and exactly once in a run that reaches END, and
\* the field then holds what the reasoner answered; the final decision is
\* empty in every state in which the Risk Judge has not run.
C19_EmptyUntilWrittenOnce ==
    /\ \A f \in WrittenOnceFields :
          /\ ~Executed(Writer(f)) => state[f] = EmptyStr
          /\ Executed(Writer(f)) => state[f] \in Responses
          /\ Turns({Writer(f)}) <= 1
          /\ node = "END" => Turns({Writer(f)}) = 1
    /\ ~Executed("Risk Judge") => state.final_trade_decision = EmptyStr

C19_Witness ==
    /\ pc = "invoke"
    /\ node = "Risk Judge"
    /\ state.trader_investment_plan = RespBuy
    /\ state.market_report = MockResponse
    /\ state.final_trade_decision = EmptyStr

\* the field (or debate state) the claim designates node n to write
DesignatedField(n) ==
    CASE n \in AnalystNodes -> OutputField(n)
      [] n \in ResearcherNodes -> "investment_debate_state"
      [] n = "Research Manager" -> "investment_plan"
      [] n = "Trader" -> "trader_investment_plan"
      [] n \in RiskDebatorNodes -> "risk_debate_state"
      [] n = "Risk Judge" -> "final_trade_decision"

\* C20 as stated: a step of a run changes a field of the state only if it is
\* a turn of the stage designated for that field; every stage leaves every
\* other field, the message log and sender included, unchanged.
C20_OnlyDesignatedField ==
    [][ LET turn == pc = "invoke" /\ executed' # executed
        IN  \A f \in DOMAIN state :
                state'[f] # state[f] => (turn /\ f = DesignatedField(node))
      ]_vars

\* C20 as amended: a step changes a report, plan, proposal, decision or debate
\* state only if it is a turn of the stage designated for it; besides its
\* designated field an analysis stage appends its reasoner message to messages
\* and the Trader sets sender to "Trader"; nothing else of the state changes.
C20_FrameWithLogAndSender ==
    [][ LET turn == pc = "invoke" /\ executed' # executed
        IN  /\ \A f \in DOMAIN state \ {"messages", "sender"} :
                  state'[f] # state[f] => (turn /\ f = DesignatedField(node))
            /\ state'.messages # state.messages =>
                  /\ turn /\ node \in AnalystNodes
                  /\ Len(state'.messages) = Len(state.messages) + 1
                  /\ IsPrefix(state.messages, state'.messages)
            /\ (turn /\ node \in AnalystNodes) =>
                  /\ Len(state'.messages) = Len(state.messages) + 1
                  /\ state'.messages[Len(state'.messages)].content
                        = state'[OutputField(node)]
            /\ state'.sender # state.sender =>
                  (turn /\ node = "Trader" /\ state'.sender = TraderName)
      ]_vars

C20_Witness ==
    /\ pc = "invoke"
    /\ node = "END"
    /\ state.sender = TraderName
    /\ Len(state.messages) = 5
    /\ state.investment_plan = RespSell

----------------------------------------------------------------------------
(* The routing functions and the node functions as functions. *)

\* C21: a call to should_continue_debate or should_continue_risk_analysis
\* leaves every field of the state it is given unchanged, and returns a party
\* node of its own debate or that debate's exit node: Bull Researcher, Bear
\* Researcher or Research Manager, respectively Risky, Safe or Neutral Analyst
\* or Risk Judge.
C21_RoutingIsPure ==
    [][ /\ pc = "call_debate" =>
              /\ state' = state
              /\ node' \in ResearcherNodes \cup {"Research Manager"}
        /\ pc = "call_risk" =>
              /\ state' = state
              /\ node' \in RiskDebatorNodes \cup {"Risk Judge"}
      ]_vars

C21_Witness ==
    /\ pc = "called_risk"
    /\ node = "Risk Judge"
    /\ state.risk_debate_state.count = 3 * max_risk_discuss_rounds
    /\ state.risk_debate_state.latest_speaker = OtherSpeaker

\* C22: a node function does not change the state it is called with: after a
\* debate node returns, the passed state, its debate sub-state included, still
\* has the old history, current response and count, and the appended turn, the
\* new current response and the count plus one are in the returned update only.
C22_NodeLeavesArgument ==
    [][ pc = "call_node" =>
          /\ state' = state
          /\ node \in ResearcherNodes =>
                LET old == state.investment_debate_state
                    arg == state'.investment_debate_state
                    ret == result'.investment_debate_state
                IN  /\ arg.history = old.history
                    /\ arg.current_response = old.current_response
                    /\ arg.count = old.count
                    /\ ret.count = old.count + 1
                    /\ Len(ret.history) > Len(old.history)
                    /\ ret.current_response # old.current_response
          /\ node \in RiskDebatorNodes =>
                LET old == state.risk_debate_state
                    arg == state'.risk_debate_state
                    ret == result'.risk_debate_state
                IN  /\ arg.history = old.history
                    /\ arg.count = old.count
                    /\ arg.latest_speaker = old.latest_speaker
                    /\ ret.count = old.count + 1
                    /\ Len(ret.history) > Len(old.history)
                    /\ ret.latest_speaker = AgentName(node)
      ]_vars

C22_Witness ==
    /\ pc = "called_node"
    /\ node = "Bear Researcher"
    /\ state.investment_debate_state.count = 1
    /\ result.investment_debate_state.count = 2
    /\ state.investment_debate_state.history
          = Newline \o BullResearcherName \o ColonSpace \o MockResponse

----------------------------------------------------------------------------
(* Merging a partial update. *)

\* C23 as stated: merging a stage's partial update replaces every returned
\* field, the message log included, by the returned value, and leaves every
\* field the update does not mention as it was.
C23_FieldwiseReplacement ==
    [][ (pc = "invoke" /\ executed' # executed) =>
            \E response \in LlmResults(varied) :
                LET upd == NodeUpdate(node, state, response)
                IN  \A f \in DOMAIN state :
                        state'[f] = IF f \in DOMAIN upd THEN upd[f] ELSE state[f]
      ]_vars

\* C23 as amended: merging a stage's partial update replaces every returned
\* field other than the message log by the returned value, appends the
\* returned messages to the message log, and leaves every field the update does
\* not mention as it was.
C23_ReplaceExceptMessages ==
    [][ (pc = "invoke" /\ executed' # executed) =>
            \E response \in LlmResults(varied) :
                LET upd == NodeUpdate(node, state, response)
                IN  \A f \in DOMAIN state :
                        state'[f] = IF f \notin DOMAIN upd THEN state[f]
                                    ELSE IF f = "messages" THEN state[f] \o upd[f]
                                    ELSE upd[f]
      ]_vars

C23_Witness ==
    /\ pc = "invoke"
    /\ node = "News Analyst"
    /\ Len(state.messages) = 3
    /\ state.messages[1].type = "human"
    /\ state.messages[3].content = RespBuy
    /\ state.sentiment_report = RespBuy
    /\ state.market_report = MockResponse

----------------------------------------------------------------------------
(* The risk debate's current-response slots. *)

\* the current-response slot of a risk-debate party's node
Slot(n) ==
    CASE n = "Risky Analyst" -> "current_risky_response"
      [] n = "Safe Analyst" -> "current_safe_response"
      [] n = "Neutral Analyst" -> "current_neutral_response"

\* C24: a risk-debate turn writes the speaker's own current-response slot and
\* leaves the other two parties' slots at their previous values, stale or
\* empty; no other step of a run changes a slot, so a slot keeps its value
\* until its own party speaks again.
C24_OwnSlotOnly ==
    [][ LET rs == state.risk_debate_state
            rs2 == state'.risk_debate_state
            turn == pc = "invoke" /\ executed' # executed
        IN  \A n \in RiskDebatorNodes :
                /\ (turn /\ node = n) =>
                      /\ rs2[Slot(n)] \in Responses
                      /\ \A o \in RiskDebatorNodes \ {n} : rs2[Slot(o)] = rs[Slot(o)]
                /\ rs2[Slot(n)] # rs[Slot(n)] => (turn /\ node = n)
      ]_vars

C24_Witness ==
    /\ pc = "invoke"
    /\ state.risk_debate_state.count = 4
    /\ state.risk_debate_state.latest_speaker = RiskyAnalystName
    /\ state.risk_debate_state.current_risky_response = RespSell
    /\ state.risk_debate_state.current_safe_response = MockResponse
    /\ state.risk_debate_state.current_neutral_response = MockResponse

----------------------------------------------------------------------------
(* Scheduling. *)

\* C25: a run has one active stage at a time: every step of graph.invoke runs
\* the one current node and merges its update, and the edges leaving that node,
\* evaluated on the merged state, schedule exactly one node, which is the next
\* to run; no node is scheduled beside it.
C25_OneActiveStage ==
    [][ (pc = "invoke" /\ executed' # executed) =>
            /\ node \in StageNodes
            /\ executed' = Append(executed, node)
            /\ Cardinality(Triggered(node, state', max_debate_rounds,
                                     max_risk_discuss_rounds)) = 1
            /\ Triggered(node, state', max_debate_rounds,
                         max_risk_discuss_rounds) = {node'}
      ]_vars

C25_Witness ==
    /\ pc = "invoke"
    /\ node = "Safe Analyst"
    /\ Len(executed) = 11
    /\ max_debate_rounds = 2

----------------------------------------------------------------------------
(* Tracing and routing. *)

\* the execution tracer holds a step of the given level
Traced(level) ==
    \E i \in DOMAIN GlobalTracer(tracers).traces :
        GlobalTracer(tracers).traces[i].level = level

\* C26: what should_continue_debate and should_continue_risk_analysis return
\* is fixed by the debate state and the round limit alone: called under a
\* freshly opened trace or under one that holds the steps and the error of a
\* failed analysis, they return the same node, and they record nothing.
C26_TracingDoesNotRoute ==
    [][ /\ pc = "call_debate" =>
              LET ds == state.investment_debate_state
              IN  /\ node' = IF ds.count >= 2 * max_debate_rounds
                             THEN "Research Manager"
                             ELSE IF StartsWith(ds.current_response, BullTag)
                                  THEN "Bear Researcher"
                                  ELSE "Bull Researcher"
                  /\ tracers' = tracers
        /\ pc = "call_risk" =>
              LET rs == state.risk_debate_state
              IN  /\ node' = IF rs.count >= 3 * max_risk_discuss_rounds
                             THEN "Risk Judge"
                             ELSE IF rs.latest_speaker = RiskyAnalystName
                                  THEN "Safe Analyst"
                                  ELSE IF rs.latest_speaker = SafeAnalystName
                                       THEN "Neutral Analyst"
                                       ELSE "Risky Analyst"
                  /\ tracers' = tracers
      ]_vars

C26_Witness ==
    /\ pc = "called_debate"
    /\ node = "Bear Researcher"
    /\ Traced("error")
    /\ Len(GlobalTracer(tracers).traces) = 7

----------------------------------------------------------------------------
(* The message log. *)

\* C27: the message log only grows within a run: after every step it holds
\* the messages it held before, in the same order, followed by what the step
\* appended; the "tools" and "Msg Clear" nodes, which could add or remove
\* messages, are never the node to run.
C27_MessagesAppendOnly ==
    /\ [](node \notin {"tools", "Msg Clear"})
    /\ [][ /\ IsPrefix(state.messages, state'.messages)
           /\ Len(state'.messages) <= Len(state.messages) + 1
       ]_vars

C27_Witness ==
    /\ pc = "invoke"
    /\ node = "END"
    /\ Len(state.messages) = 5
    /\ state.messages[1].type = "human"
    /\ state.messages[2].content = state.market_report
    /\ state.messages[5].content = RespSell

----------------------------------------------------------------------------
(* The order of the debate turns. *)

\* the turns of the nodes in S, in the order they ran
TurnsOf(S) ==
    SelectSeq(executed, LAMBDA n : n \in S)

\* C28: the investment-debate turns alternate, the Bull Researcher first, so
\* that no party speaks twice in a row; and when the Research Manager is the
\* node to run, count is exactly 2 * max_debate_rounds and the Bull and the
\* Bear Researcher have each spoken exactly max_debate_rounds times.
C28_BullBearAlternate ==
    LET turns == TurnsOf(ResearcherNodes)
    IN  /\ \A i \in DOMAIN turns :
              turns[i] = IF i % 2 = 1 THEN "Bull Researcher" ELSE "Bear Researcher"
        /\ node = "Research Manager" =>
              /\ state.investment_debate_state.count = 2 * max_debate_rounds
              /\ Turns({"Bull Researcher"}) = max_debate_rounds
              /\ Turns({"Bear Researcher"}) = max_debate_rounds

C28_Witness ==
    /\ pc = "invoke"
    /\ node = "Research Manager"
    /\ max_debate_rounds = 2
    /\ TurnsOf(ResearcherNodes) = <<"Bull Researcher", "Bear Researcher",
                                    "Bull Researcher", "Bear Researcher">>

\* C29: the risk-debate turns follow the cycle Risky, Safe, Neutral, the Risky
\* Analyst first; and when the Risk Judge is the node to run, count is exactly
\* 3 * max_risk_discuss_rounds and each of the three parties has spoken exactly
\* max_risk_discuss_rounds times.
C29_RiskCycle ==
    LET turns == TurnsOf(RiskDebatorNodes)
    IN  /\ \A i \in DOMAIN turns :
              turns[i] = CASE i % 3 = 1 -> "Risky Analyst"
                           [] i % 3 = 2 -> "Safe Analyst"
                           [] i % 3 = 0 -> "Neutral Analyst"
        /\ node = "Risk Judge" =>
              /\ state.risk_debate_state.count = 3 * max_risk_discuss_rounds
              /\ \A n \in RiskDebatorNodes : Turns({n}) = max_risk_discuss_rounds

C29_Witness ==
    /\ pc = "invoke"
    /\ node = "Risk Judge"
    /\ max_risk_discuss_rounds = 2
    /\ TurnsOf(RiskDebatorNodes) = <<"Risky Analyst", "Safe Analyst", "Neutral Analyst",
                                     "Risky Analyst", "Safe Analyst", "Neutral Analyst">>

\* the stages of a successful run with round limits m and r, in order
StageSequence(m, r) ==
    <<"Market Analyst", "Social Analyst", "News Analyst", "Fundamentals Analyst">>
      \o [i \in 1..(2 * m) |->
             IF i % 2 = 1 THEN "Bull Researcher" ELSE "Bear Researcher"]
      \o <<"Research Manager", "Trader">>
      \o [i \in 1..(3 * r) |->
             CASE i % 3 = 1 -> "Risky Analyst"
               [] i % 3 = 2 -> "Safe Analyst"
               [] i % 3 = 0 -> "Neutral Analyst"]
      \o <<"Risk Judge">>

\* C30: the stages a run executes are fixed by the two round limits: whatever
\* the reasoner returns, a text beginning with "Bull" included, the stages
\* executed so far are the beginning of the one sequence the limits determine,
\* and a run that reaches END has executed exactly that sequence.
C30_StagesFixedByLimits ==
    LET seq == StageSequence(max_debate_rounds, max_risk_discuss_rounds)
    IN  /\ IsPrefix(executed, seq)
        /\ node = "END" => executed = seq
        /\ (pc = "invoke" /\ node # "END") => node = seq[Len(executed) + 1]

C30_Witness ==
    /\ RunSucceeded
    /\ max_debate_rounds = 2
    /\ state.investment_debate_state.history
          = Newline \o BullResearcherName \o ColonSpace \o MockResponse
            \o Newline \o BearResearcherName \o ColonSpace \o BullTag
            \o Newline \o BullResearcherName \o ColonSpace \o MockResponse
            \o Newline \o BearResearcherName \o ColonSpace \o MockResponse

----------------------------------------------------------------------------
(* The bookkeeping fields of the two debates. *)

IsSuffix(p, q) ==
    Len(p) <= Len(q) /\ SubSeq(q, Len(q) - Len(p) + 1, Len(q)) = p

\* the number of line breaks in s: every turn is appended after one, and no
\* answer of the reasoner drawn here holds one
Breaks(s) ==
    Cardinality({i \in DOMAIN s : s[i] = "\n"})

\* the last element of a non-empty sequence
Last(q) ==
    q[Len(q)]

\* C31: in every state of a run each debate's count is the number of turns
\* appended to that debate's history; the investment debate's
\* current_response is the last turn of its history, and empty while count is
\* 0; the risk debate's latest_speaker is the party that appended the last
\* turn of its history, and empty while count is 0.
C31_BookkeepingMatchesHistory ==
    LET ids == state.investment_debate_state
        rds == state.risk_debate_state
        inv_turns == TurnsOf(ResearcherNodes)
        risk_turns == TurnsOf(RiskDebatorNodes)
    IN  /\ ids.count = Len(inv_turns)
        /\ ids.count = Breaks(ids.history)
        /\ rds.count = Len(risk_turns)
        /\ rds.count = Breaks(rds.history)
        /\ IF ids.count = 0
           THEN ids.current_response = EmptyStr /\ ids.history = EmptyStr
           ELSE /\ IsSuffix(Newline \o ids.current_response, ids.history)
                /\ StartsWith(ids.current_response,
                              AgentName(Last(inv_turns)) \o ColonSpace)
        /\ IF rds.count = 0
           THEN rds.latest_speaker = EmptyStr /\ rds.history = EmptyStr
           ELSE /\ rds.latest_speaker = AgentName(Last(risk_turns))
                /\ \E c \in Responses :
                      IsSuffix(Newline \o rds.latest_speaker \o ColonSpace \o c,
                               rds.history)

C31_Witness ==
    /\ pc = "invoke"
    /\ state.investment_debate_state.count = 4
    /\ state.investment_debate_state.current_response
          = BearResearcherName \o ColonSpace \o MockResponse
    /\ state.risk_debate_state.count = 2
    /\ state.risk_debate_state.latest_speaker = SafeAnalystName

----------------------------------------------------------------------------
(* The fields each stage reads, and the stages that write them. *)

\* analyst_node: state['messages'], state['trade_date'], state['company_of_interest']
analyst_node_reads ==
    {"messages", "trade_date", "company_of_interest"}

\* researcher_node: the four reports and the investment debate state
researcher_node_reads ==
    {"market_report", "sentiment_report", "news_report", "fundamentals_report",
     "investment_debate_state"}

\* research_manager_node: state['investment_debate_state']['history']
research_manager_node_reads ==
    {"investment_debate_state"}

\* trader_node: state['investment_plan']
trader_node_reads ==
    {"investment_plan"}

\* risk_debator_node: state['risk_debate_state'], state['trader_investment_plan']
risk_debator_node_reads ==
    {"risk_debate_state", "trader_investment_plan"}

\* risk_manager_node: state['trader_investment_plan'], state['risk_debate_state']['history']
risk_manager_node_reads ==
    {"trader_investment_plan", "risk_debate_state"}

\* the fields the function registered under node name n reads
Reads(n) ==
    CASE n \in AnalystNodes -> analyst_node_reads
      [] n \in ResearcherNodes -> researcher_node_reads
      [] n = "Research Manager" -> research_manager_node_reads
      [] n = "Trader" -> trader_node_reads
      [] n \in RiskDebatorNodes -> risk_debator_node_reads
      [] n = "Risk Judge" -> risk_manager_node_reads

\* the stages that have run, followed by the stage graph.invoke runs next
RanOrRunning ==
    executed \o (IF pc = "invoke" /\ node # "END" THEN <<node>> ELSE << >>)

\* C32: every stage runs only after the stages that write the fields it
\* reads. For the stage that ran last or, while graph.invoke is under way, is
\* the one to run next (every stage of a run is that stage in some state):
\* each report, plan, proposal or decision it reads was written by its
\* designated stage earlier in the run, so a debate turn runs after all four
\* reports are written, the Trader after the investment plan and a risk-debate
\* turn after the trader proposal; the Research Manager runs when the debate
\* history holds all 2 * max_debate_rounds turns, the Risk Judge when the
\* risk history holds all 3 * max_risk_discuss_rounds turns, and no turn is
\* added to a history after its judge has run.
C32_ReadsAfterWrites ==
    LET ran == RanOrRunning
        cur == ran[Len(ran)]
        before == {ran[j] : j \in 1..(Len(ran) - 1)}
        ids == state.investment_debate_state
        rds == state.risk_debate_state
    IN  ran # << >> =>
          /\ \A f \in Reads(cur) \cap WrittenOnceFields : Writer(f) \in before
          /\ cur \in ResearcherNodes =>
                /\ AnalystNodes \subseteq before
                /\ "Research Manager" \notin before
                /\ \A f \in {"market_report", "sentiment_report", "news_report",
                              "fundamentals_report"} :
                      /\ state[f] \in Responses
                      /\ varied = 0 => state[f] = MockResponse
          /\ cur = "Research Manager" =>
                /\ Turns(ResearcherNodes) = 2 * max_debate_rounds
                /\ Breaks(ids.history) = 2 * max_debate_rounds
          /\ cur = "Trader" =>
                /\ "Research Manager" \in before
                /\ varied = 0 => state.investment_plan = MockResponse
          /\ cur \in RiskDebatorNodes =>
                /\ "Trader" \in before
                /\ "Risk Judge" \notin before
                /\ varied = 0 => state.trader_investment_plan = MockResponse
          /\ cur = "Risk Judge" =>
                /\ "Trader" \in before
                /\ Turns(RiskDebatorNodes) = 3 * max_risk_discuss_rounds
                /\ Breaks(rds.history) = 3 * max_risk_discuss_rounds

C32_Witness ==
    /\ pc = "invoke"
    /\ node = "Risk Judge"
    /\ max_debate_rounds = 2
    /\ max_risk_discuss_rounds = 2
    /\ varied = 0
    /\ Breaks(state.risk_debate_state.history) = 6
    /\ Breaks(state.investment_debate_state.history) = 4
    /\ state.trader_investment_plan = MockResponse

----------------------------------------------------------------------------
(* The signal of a failed run. *)

\* C33: whenever a run fails, at whatever stage, the signal extract_signal
\* derives from what run_full_pipeline returned is HOLD, never BUY or SELL:
\* the step of main that follows the return of a failed run sets the signal
\* to HOLD, whatever the stages before the failure had written, and the signal
\* of a failed run is never changed afterwards.
C33_FailureSignalsHold ==
    [][/\ (RunFailed /\ pc = "returned") =>
             (signal' = "HOLD" /\ signal' \notin {"BUY", "SELL"})
       /\ (RunFailed /\ pc = "done") => (RunFailed' => signal' = "HOLD")]_vars

C33_Witness ==
    /\ RunFailed
    /\ pc = "done"
    /\ signal = "HOLD"
    /\ node = "Risk Judge"
    /\ state.trader_investment_plan = RespBuy
    /\ extract_signal(state) = "HOLD"
    /\ extract_signal([state EXCEPT !.final_trade_decision
                          = state.trader_investment_plan]) = "BUY"

----------------------------------------------------------------------------
(* The tracers over the runs of one process. *)

\* the analysis stages whose tracing calls have been made in the current run:
\* those that ran and the one that failed
TracedAnalysts ==
    Turns(AnalystNodes) + (IF RunFailed /\ node \in AnalystNodes THEN 1 ELSE 0)

\* C34: for runs of run_full_pipeline executed one after another, each run
\* resets both global tracers before any stage executes: in every state the
\* global execution tracer carries the current run's session id, opens with
\* the run's one "System" start step, numbers its steps from 1 and holds
\* exactly the steps the current run recorded, none of an earlier run; the
\* global reasoning tracer holds one step per analysis stage traced in the
\* current run and writes into the current run's execution tracer, which is
\* the only ExecutionTracer still referred to.
C34_RunsStartWithFreshTracers ==
    LET t == GlobalTracer(tracers)
        r == tracers.global_reasoning_tracer
    IN  /\ t.session_id = AnalysisPrefix \o ticker \o Underscore \o trade_date
        /\ t.current_step = Len(t.traces)
        /\ \A i \in DOMAIN t.traces : t.traces[i].step_id = i
        /\ t.traces[1].agent_name = "System"
        /\ t.traces[1].message = "Starting Deep Thinking Trading Analysis"
        /\ \A i \in DOMAIN t.traces :
              t.traces[i].message = "Starting Deep Thinking Trading Analysis"
                  => i = 1
        /\ Len(t.traces) = 1 + 7 * Turns(AnalystNodes)
                             + (IF RunFailed /\ node \in AnalystNodes THEN 6 ELSE 0)
                             + (IF RunSucceeded THEN 1 ELSE 0)
        /\ (pc = "invoke" /\ executed = << >>) =>
              (Len(t.traces) = 1 /\ r.reasoning_steps = << >>)
        /\ ~IsNone(r)
        /\ r.execution_tracer = tracers.global_tracer
        /\ Len(r.reasoning_steps) = TracedAnalysts
        /\ DOMAIN tracers.heap = {tracers.global_tracer}

\* a second run, for another ticker than the first, that has traced two
\* analysis stages
C34_Witness ==
    /\ tracers.allocated = 2
    /\ tracers.global_tracer = 2
    /\ ticker = OtherTicker
    /\ node = "News Analyst"
    /\ pc = "invoke"
    /\ Len(GlobalTracer(tracers).traces) = 15
    /\ Len(tracers.global_reasoning_tracer.reasoning_steps) = 2

----------------------------------------------------------------------------
(* The reasoning chains of a ReasoningTracer and the trace_function wrapper. *)

\* the texts the logged calls passed for the step with this id: its initial
\* thought and the thoughts passed to continue_reasoning for it
OwnThoughts(step_id) ==
    {executed[c].thought : c \in {k \in DOMAIN executed :
        /\ executed[k].op \in {"start_reasoning", "continue_reasoning"}
        /\ executed[k].step_id = step_id}}

\* C35: for every sequence of start_reasoning, continue_reasoning and
\* conclude_reasoning calls on a ReasoningTracer, calls that interleave two
\* open steps included, the reasoning_chain stored on a step contains only
\* that step's own initial thought and the thoughts passed to
\* continue_reasoning for that step's id.
C35_ChainHoldsOwnThoughts ==
    IsNone(tracers.global_reasoning_tracer)
    \/ \A i \in DOMAIN tracers.global_reasoning_tracer.reasoning_steps :
          LET step == tracers.global_reasoning_tracer.reasoning_steps[i]
          IN  \A k \in DOMAIN step.reasoning_chain :
                  step.reasoning_chain[k] \in OwnThoughts(step.step_id)

\* C36: a function wrapped by trace_function behaves like the wrapped
\* function apart from tracing: when the function returns a value the wrapper
\* returns that value, and when it raises the wrapper records an error step
\* and raises that same exception.
C36_WrapperIsTransparent ==
    (pc = "tracing" /\ ~IsNone(result)) =>
        /\ result.wrapper = result.func
        /\ result.func.kind = "raised" =>
              LET t == GlobalTracer(tracers).traces
              IN  /\ Len(t) > result.steps_before
                  /\ t[Len(t)].level = "error"

====
